---- MODULE Spec2Model ----
(***************************************************************************)
(* A model of streetSignal's district processing pipeline                  *)
(* (src/processor.py, DistrictProcessor) together with the collaborators   *)
(* it calls in src/utils.py.                                               *)
(*                                                                         *)
(* Text that the code inspects character by character (postcodes, district *)
(* codes) is a sequence of one-character strings; Python's None is the     *)
(* value None; a dict is a function whose domain is its set of keys, so a  *)
(* missing key is a key outside DOMAIN.                                    *)
(***************************************************************************)
EXTENDS Integers, Sequences, FiniteSets, TLC

\* ------------------------------------------------------------------ bounds

\* Longest raw POI response / raw street response of the general pipeline runs.
MaxPois == 2
MaxStreets == 2
\* Longest raw POI response / raw street response of the ranking runs.
MaxRankPois == 5
MaxRankStreets == 3
\* Longest list of attributed POIs of the postcode-consistency runs.
MaxFilterPois == 4

\* ------------------------------------------------------------ Python values

None == "None"

\* {} : the dict with no key
EmptyDict == [key \in {} |-> None]

\* A message is the pair of a fixed text and the text formatted into it
\* (f"Could not geocode district: {self.district}"); str(e) of an exception
\* is the pair of its text and the empty text.  NoError is the None of the
\* error fields, NoCoords the None that geocode_district returns in place of
\* a (lat, lon) pair.
Message(text, arg) == <<text, arg>>
NoError == <<>>
NoCoords == <<>>

\* The local coords of process() while geocode_district has not returned.
NotReturned == <<"not returned">>

\* dict.get(key, default)
Get(d, key, default) == IF key \in DOMAIN d THEN d[key] ELSE default

LowerCase == <<"a","b","c","d","e","f","g","h","i","j","k","l","m",
               "n","o","p","q","r","s","t","u","v","w","x","y","z">>
UpperCase == <<"A","B","C","D","E","F","G","H","I","J","K","L","M",
               "N","O","P","Q","R","S","T","U","V","W","X","Y","Z">>

\* str.upper(), one character
UpperChar(c) ==
    IF \E i \in 1..26 : LowerCase[i] = c
    THEN UpperCase[CHOOSE i \in 1..26 : LowerCase[i] = c]
    ELSE c

\* str.upper()
Upper(s) == [i \in 1..Len(s) |-> UpperChar(s[i])]

\* str.replace(' ', '')
RemoveSpaces(s) == SelectSeq(s, LAMBDA c : c # " ")

\* str.startswith(prefix)
StartsWith(s, prefix) ==
    /\ Len(prefix) <= Len(s)
    /\ SubSeq(s, 1, Len(prefix)) = prefix

Abs(x) == IF x < 0 THEN -x ELSE x

\* ------------------------------------------------------------- config.py

TOP_N_STREETS == 3

\* --------------------------------------------------------------- geo math

\* Metres of arc between two neighbouring latitude steps of the model's grid.
StepMeters == 50

\* haversine_distance: the great-circle distance R * c.  Every coordinate of
\* the model lies on the meridian lon = 0 and its latitude is a whole number
\* of steps of StepMeters metres of arc; for two points of one meridian
\* a = sin^2(dphi / 2), so c = |dphi| and the distance is R * |dphi|.
\* (lon1 = lon2 = 0 in every call the model makes.)
haversine_distance(lat1, lon1, lat2, lon2) == StepMeters * Abs(lat2 - lat1)

\* ------------------------------------------------- DistrictProcessor helpers

\* _extract_pois, lines 113-120: the element's coordinates can be determined.
\* A node is read through element['lat'] / element['lon'] directly.
PoiHasCoords(element) ==
    \/ element["type"] = "node"
    \/ "center" \in DOMAIN element

\* _extract_pois, lines 113-115: element['lat'] of a node that has no such
\* key raises KeyError.
PoiCoordsRaise(element) ==
    /\ element["type"] = "node"
    /\ ~({"lat", "lon"} \subseteq DOMAIN element)

PoiLat(element) ==
    IF element["type"] = "node" THEN element["lat"] ELSE element["center"]["lat"]

PoiLon(element) ==
    IF element["type"] = "node" THEN element["lon"] ELSE element["center"]["lon"]

\* _extract_pois, lines 122-130: the postcode filter (the mutant keeps only
\* postcodes whose outward part is the district itself).
PoiPostcodeExact(element, district) ==
    LET postcode == Get(Get(element, "tags", EmptyDict), "addr:postcode", <<>>)
    IN  \/ postcode = <<>>
        \/ StartsWith(Upper(postcode), district \o <<" ">>)

\* An extraction that keeps the elements of any postcode.
PoiPostcodeAny(element, district) == TRUE

PoiPostcodeOk(element, district) ==
    LET postcode == Get(Get(element, "tags", EmptyDict), "addr:postcode", <<>>)
    IN  \/ postcode = <<>>
        \/ StartsWith(RemoveSpaces(Upper(postcode)), district)

\* _extract_pois, lines 132-146 (the fields the pipeline reads afterwards).
MakePoi(element) ==
    LET tags == Get(element, "tags", EmptyDict)
    IN  [id       |-> element["id"],
         type     |-> element["type"],
         lat      |-> PoiLat(element),
         lon      |-> PoiLon(element),
         street   |-> Get(tags, "addr:street", None),
         postcode |-> Get(tags, "addr:postcode", <<>>)]

\* _extract_pois raises: some element of the response makes line 114 raise.
\* Elements before it were only appended to the local list, which is lost.
ExtractPoisRaises(data) ==
    LET elements == Get(data, "elements", <<>>)
    IN  \E i \in 1..Len(elements) : PoiCoordsRaise(elements[i])

_extract_pois(data, district) ==
    LET elements == Get(data, "elements", <<>>)
        kept == SelectSeq(elements,
                    LAMBDA el : PoiHasCoords(el) /\ PoiPostcodeOk(el, district))
    IN  [i \in 1..Len(kept) |-> MakePoi(kept[i])]

\* `if not name`: None and the empty string are both falsy.
Truthy(text) == text # None /\ text # ""

\* _extract_streets, lines 166-176 (the mutant keeps every element that has
\* a name tag, empty or not).
StreetKeptIfTagged(element) ==
    /\ "name" \in DOMAIN Get(element, "tags", EmptyDict)
    /\ "center" \in DOMAIN element

StreetKept(element) ==
    /\ Truthy(Get(Get(element, "tags", EmptyDict), "name", None))
    /\ "center" \in DOMAIN element

MakeStreet(element) ==
    [id   |-> element["id"],
     name |-> element["tags"]["name"],
     lat  |-> element["center"]["lat"],
     lon  |-> element["center"]["lon"]]

_extract_streets(data) ==
    LET elements == Get(data, "elements", <<>>)
        kept == SelectSeq(elements, StreetKept)
    IN  [i \in 1..Len(kept) |-> MakeStreet(kept[i])]

\* float('inf'), the initial min_distance of _find_nearest_street.  Distances
\* are never negative, so -1 stands for the value above every distance.
Infinity == -1

\* _find_nearest_street, line 247: distance < min_distance (the mutant: <=).
CloserOrEqual(distance, min_distance) ==
    min_distance = Infinity \/ distance <= min_distance

Closer(distance, min_distance) ==
    min_distance = Infinity \/ distance < min_distance

\* _find_nearest_street, line 252: min_distance <= self.max_assign_m
\* (the mutant: <).
StrictlyWithinThreshold(min_distance, max_assign) ==
    min_distance # Infinity /\ min_distance < max_assign

WithinThreshold(min_distance, max_assign) ==
    min_distance # Infinity /\ min_distance <= max_assign

\* _find_nearest_street, lines 238-249: the scan of self.streets from index i
\* on, carrying nearest_street and min_distance.
RECURSIVE NearestScan(_, _, _, _, _)
NearestScan(poi, strs, i, nearest_street, min_distance) ==
    IF i > Len(strs)
    THEN [nearest_street |-> nearest_street, min_distance |-> min_distance]
    ELSE LET distance == haversine_distance(poi.lat, poi.lon,
                                            strs[i].lat, strs[i].lon)
         IN  IF Closer(distance, min_distance)
             THEN NearestScan(poi, strs, i + 1, strs[i].name, distance)
             ELSE NearestScan(poi, strs, i + 1, nearest_street, min_distance)

_find_nearest_street(poi, strs, max_assign) ==
    IF strs = <<>>
    THEN None
    ELSE LET scan == NearestScan(poi, strs, 1, None, Infinity)
         IN  IF WithinThreshold(scan.min_distance, max_assign)
             THEN scan.nearest_street
             ELSE None

\* A Counter / dict keeps its keys in the order of their first insertion;
\* street_counts is the sequence of its (name, count) items in that order.
CountOf(street_counts, name) ==
    IF \E i \in 1..Len(street_counts) : street_counts[i][1] = name
    THEN street_counts[CHOOSE i \in 1..Len(street_counts) :
                           street_counts[i][1] = name][2]
    ELSE 0

\* street_counts[street_name] += 1
Increment(street_counts, name) ==
    IF \E i \in 1..Len(street_counts) : street_counts[i][1] = name
    THEN [i \in 1..Len(street_counts) |->
            IF street_counts[i][1] = name
            THEN <<name, street_counts[i][2] + 1>>
            ELSE street_counts[i]]
    ELSE Append(street_counts, <<name, 1>>)

\* self.street_to_pois[street_name].append(poi), on a defaultdict(list)
AppendPoi(street_to_pois, name, poi) ==
    IF name \in DOMAIN street_to_pois
    THEN [street_to_pois EXCEPT ![name] = Append(@, poi)]
    ELSE street_to_pois @@ (name :> <<poi>>)

\* _attribute_pois_to_streets, lines 207-214: the street name of one POI.
\* (The mutant consults the nearest-street scan first.)
StreetNameOfNearestFirst(poi, strs, max_assign) ==
    LET nearest == _find_nearest_street(poi, strs, max_assign)
    IN  IF Truthy(nearest) THEN nearest ELSE poi.street

StreetNameOf(poi, strs, max_assign) ==
    IF Truthy(poi.street)
    THEN poi.street
    ELSE _find_nearest_street(poi, strs, max_assign)

\* _attribute_pois_to_streets, lines 216-218 (the mutant counts the POI and
\* appends it to the list only when the name is new).
AttributeOneListedOnce(acc, name, poi) ==
    [street_counts  |-> Increment(acc.street_counts, name),
     street_to_pois |-> IF name \in DOMAIN acc.street_to_pois
                        THEN acc.street_to_pois
                        ELSE AppendPoi(acc.street_to_pois, name, poi)]

AttributeOne(acc, name, poi) ==
    [street_counts  |-> Increment(acc.street_counts, name),
     street_to_pois |-> AppendPoi(acc.street_to_pois, name, poi)]

\* _attribute_pois_to_streets, lines 206-218: the loop over self.pois from
\* index i on; acc holds street_counts and self.street_to_pois.
RECURSIVE AttributeFrom(_, _, _, _, _)
AttributeFrom(ps, strs, max_assign, i, acc) ==
    IF i > Len(ps)
    THEN acc
    ELSE LET street_name == StreetNameOf(ps[i], strs, max_assign)
         IN  AttributeFrom(ps, strs, max_assign, i + 1,
                 IF Truthy(street_name)
                 THEN AttributeOne(acc, street_name, ps[i])
                 ELSE acc)

_attribute_pois_to_streets(ps, strs, max_assign) ==
    AttributeFrom(ps, strs, max_assign, 1,
                  [street_counts |-> <<>>, street_to_pois |-> EmptyDict])

\* sorted(items, key = count, reverse = True) is stable: items of equal
\* count keep their order.  An item is a pair (name, count); InsertByCount
\* puts item behind every item of the sorted sequence whose count is not
\* smaller.
RECURSIVE InsertByCount(_, _)
InsertByCount(sorted, item) ==
    IF sorted = <<>>
    THEN <<item>>
    ELSE IF Head(sorted)[2] >= item[2]
         THEN <<Head(sorted)>> \o InsertByCount(Tail(sorted), item)
         ELSE <<item>> \o sorted

RECURSIVE SortedByCountDesc(_)
SortedByCountDesc(items) ==
    IF items = <<>>
    THEN <<>>
    ELSE InsertByCount(SortedByCountDesc(SubSeq(items, 1, Len(items) - 1)),
                       items[Len(items)])

Min(a, b) == IF a < b THEN a ELSE b

\* sequence[:n]
Prefix(sequence, n) == SubSeq(sequence, 1, Min(n, Len(sequence)))

\* The mutant of _rank_streets: the first TOP_N_STREETS items, unsorted.
FirstStreetsUnsorted(street_counts) == Prefix(street_counts, TOP_N_STREETS)

_rank_streets(street_counts) ==
    Prefix(SortedByCountDesc(street_counts), TOP_N_STREETS)

\* _filter_streets_by_postcode, lines 295-302: the POIs of the list from
\* index i on whose postcode is set and does (in = TRUE) or does not
\* (in = FALSE) start with the district.
RECURSIVE PostcodeCount(_, _, _, _)
PostcodeCount(pois_on_street, district, in, i) ==
    IF i > Len(pois_on_street)
    THEN 0
    ELSE LET postcode == pois_on_street[i].postcode
             counted ==
                /\ postcode # <<>>
                /\ StartsWith(RemoveSpaces(Upper(postcode)), district) = in
         IN  (IF counted THEN 1 ELSE 0)
             + PostcodeCount(pois_on_street, district, in, i + 1)

\* The mutant of _filter_streets_by_postcode: a strict majority is needed.
FilterStrictMajority(street_name, street_to_pois, district) ==
    LET pois_on_street == Get(street_to_pois, street_name, <<>>)
        district_count == PostcodeCount(pois_on_street, district, TRUE, 1)
        other_district_count == PostcodeCount(pois_on_street, district, FALSE, 1)
    IN  IF district_count = 0 /\ other_district_count = 0
        THEN TRUE
        ELSE district_count > other_district_count

_filter_streets_by_postcode(street_name, street_to_pois, district) ==
    LET pois_on_street == Get(street_to_pois, street_name, <<>>)
        district_count == PostcodeCount(pois_on_street, district, TRUE, 1)
        other_district_count == PostcodeCount(pois_on_street, district, FALSE, 1)
    IN  IF district_count = 0 /\ other_district_count = 0
        THEN TRUE
        ELSE district_count >= other_district_count

\* _build_result, lines 321-323: pad to exactly TOP_N_STREETS entries.
RECURSIVE Padded(_)
Padded(top_streets) ==
    IF Len(top_streets) < TOP_N_STREETS
    THEN Padded(Append(top_streets, <<"", 0>>))
    ELSE top_streets

\* _build_result, lines 339-361: streets_map, as the sequence of its
\* (name, poi_count) values in insertion order, built by the loop over
\* self.streets from index i on.
RECURSIVE StreetsMapFrom(_, _, _, _, _, _)
StreetsMapFrom(strs, street_counts, street_to_pois, district, i, streets_map) ==
    IF i > Len(strs)
    THEN streets_map
    ELSE LET street_name == strs[i].name
             poi_count == CountOf(street_counts, street_name)
             skip ==
                \/ \E k \in 1..Len(streets_map) : streets_map[k][1] = street_name
                \/ poi_count = 0
                \/ ~_filter_streets_by_postcode(street_name, street_to_pois,
                                                district)
         IN  StreetsMapFrom(strs, street_counts, street_to_pois, district, i + 1,
                 IF skip
                 THEN streets_map
                 ELSE Append(streets_map, <<street_name, poi_count>>))

\* Entries that lose the counts.
AsEntriesUncounted(items) ==
    [i \in 1..Len(items) |-> [name |-> items[i][1], poi_count |-> 0]]

\* The dicts {'name': ..., 'poi_count': ...} of a sequence of pairs.
AsEntries(items) ==
    [i \in 1..Len(items) |-> [name |-> items[i][1], poi_count |-> items[i][2]]]

\* The mutant of AllStreets: one entry per fetched geometry, not per name.
AllStreetsPerGeometry(strs, street_counts, street_to_pois, district) ==
    LET kept == SelectSeq(strs, LAMBDA street :
                    /\ CountOf(street_counts, street.name) # 0
                    /\ _filter_streets_by_postcode(street.name, street_to_pois,
                                                   district))
    IN  AsEntries(SortedByCountDesc(
            [i \in 1..Len(kept) |->
                <<kept[i].name, CountOf(street_counts, kept[i].name)>>]))

\* _build_result, lines 338-367: all_streets_with_counts.
AllStreets(strs, street_counts, street_to_pois, district) ==
    AsEntries(SortedByCountDesc(
        StreetsMapFrom(strs, street_counts, street_to_pois, district, 1, <<>>)))

\* _build_result.  self is the record of the processor's fields.
_build_result(self, top_streets) ==
    LET padded == Padded(top_streets)
    IN  [district            |-> self.district,
         success             |-> TRUE,
         error               |-> NoError,
         total_pois          |-> Len(self.pois),
         total_streets_found |-> Len(self.streets),
         street_1            |-> padded[1][1],
         count_1             |-> padded[1][2],
         street_2            |-> padded[2][1],
         count_2             |-> padded[2][2],
         street_3            |-> padded[3][1],
         count_3             |-> padded[3][2],
         all_streets         |-> AllStreets(self.streets, self.street_poi_counts,
                                            self.street_to_pois, self.district)]

\* _build_error_result with 'error': None in place of line 381.
ErrorResultWithoutMessage(self) ==
    [district            |-> self.district,
     success             |-> FALSE,
     error               |-> NoError,
     total_pois          |-> 0,
     total_streets_found |-> 0,
     street_1            |-> "",
     count_1             |-> 0,
     street_2            |-> "",
     count_2             |-> 0,
     street_3            |-> "",
     count_3             |-> 0]

_build_error_result(self) ==
    [district            |-> self.district,
     success             |-> FALSE,
     error               |-> self.error,
     total_pois          |-> 0,
     total_streets_found |-> 0,
     street_1            |-> "",
     count_1             |-> 0,
     street_2            |-> "",
     count_2             |-> 0,
     street_3            |-> "",
     count_3             |-> 0]

\* ------------------------------------------------------- utils.py: geocoding

\* str.lower(), one character, and str.lower()
LowerChar(c) ==
    IF \E i \in 1..26 : UpperCase[i] = c
    THEN LowerCase[CHOOSE i \in 1..26 : UpperCase[i] = c]
    ELSE c

Lower(s) == [i \in 1..Len(s) |-> LowerChar(s[i])]

\* str.strip(): without the spaces at either end.
Strip(s) ==
    LET solid == {i \in 1..Len(s) : s[i] # " "}
    IN  IF solid = {}
        THEN <<>>
        ELSE SubSeq(s, CHOOSE i \in solid : \A j \in solid : i <= j,
                       CHOOSE i \in solid : \A j \in solid : i >= j)

\* A number is a fraction <<numerator, denominator>> in lowest terms; the
\* unit is a tenth of a degree.
RECURSIVE GCD(_, _)
GCD(a, b) == IF b = 0 THEN a ELSE GCD(b, a % b)

Frac(n, d) ==
    LET g == GCD(Abs(n), d)
    IN  <<(IF n < 0 THEN -(Abs(n) \div g) ELSE n \div g), d \div g>>

\* float(text) of the decimal text of a coordinate.
Number(n) == Frac(n, 1)

RECURSIVE SumOf(_)
SumOf(values) == IF values = <<>> THEN 0 ELSE Head(values) + SumOf(Tail(values))

\* sum(values) / len(values)
Mean(values) == Frac(SumOf(values), Len(values))

\* GeocodeCache.get_district / set_district: the key of a district (the
\* mutant: the district as it is given).
DistrictKeyAsGiven(district) == district

DistrictKey(district) == Strip(Upper(district))

\* GeocodeCache.get_district: the row as a dict, or None (the empty dict
\* stands for it; both are falsy).
NoRow == EmptyDict

get_district(cache, district) ==
    IF DistrictKey(district) \in DOMAIN cache
    THEN cache[DistrictKey(district)]
    ELSE NoRow

\* GeocodeCache.set_district: INSERT ... ON CONFLICT(district) DO UPDATE.
set_district(cache, district, lat, lon) ==
    LET key == DistrictKey(district)
    IN  [k \in DOMAIN cache \cup {key} |->
            IF k = key THEN [lat |-> lat, lon |-> lon] ELSE cache[k]]

\* geocode_district, lines 234-246: the candidates whose postcode starts
\* with the district code and a space (the mutant: with the district code).
IsSubDistrictMatch(result, district) ==
    LET address == Get(result, "address", EmptyDict)
        postcode == Upper(Get(address, "postcode", <<>>))
    IN  StartsWith(postcode, Upper(district))

IsExactMatch(result, district) ==
    LET address == Get(result, "address", EmptyDict)
        postcode == Upper(Get(address, "postcode", <<>>))
    IN  StartsWith(postcode, Upper(district) \o <<" ">>)

exact_matches(results, district) ==
    SelectSeq(results, LAMBDA result : IsExactMatch(result, district))

\* geocode_district, lines 249-267: the coordinate computed from a non-empty
\* list of candidates.
FromCandidates(results, district) ==
    LET matches == exact_matches(results, district)
    IN  IF matches # <<>>
        THEN <<Mean([i \in 1..Len(matches) |-> matches[i].lat]),
               Mean([i \in 1..Len(matches) |-> matches[i].lon])>>
        ELSE <<Number(results[1].lat), Number(results[1].lon)>>

\* GeocodeCache._street_key: f"{postcode.upper().strip()}|{street.lower().strip()}"
_street_key(postcode, street) ==
    Strip(Upper(postcode)) \o <<"|">> \o Strip(Lower(street))

\* json.dumps(raw)
Dumps(raw) == <<"json", raw>>

\* GeocodeCache.get_street: dict(row), or None
get_street(cache, postcode, street) ==
    IF _street_key(postcode, street) \in DOMAIN cache
    THEN cache[_street_key(postcode, street)]
    ELSE NoRow

\* GeocodeCache.set_street: INSERT ... ON CONFLICT(key) DO UPDATE.
set_street(cache, postcode, street, lat, lon, area, raw) ==
    LET key == _street_key(postcode, street)
    IN  [k \in DOMAIN cache \cup {key} |->
            IF k = key
            THEN [lat |-> lat, lon |-> lon, area |-> area, raw_json |-> Dumps(raw)]
            ELSE cache[k]]

\* ------------------------------------------------------------ input domains

SE1 == <<"S", "E", "1">>
se1 == <<"s", "e", "1">>
PostcodeInDistrict == <<"S", "E", "1", " ", "7", "P", "B">>
PostcodeElsewhere == <<"S", "W", "1", "A", " ", "1", "A", "A">>
PostcodeSubDistrict == <<"S", "E", "1", "1", " ", "5", "P", "Q">>

\* The districts a processor is constructed with (__init__ stores the
\* argument as it is given).
Districts == {SE1, se1}

\* max_assign_m, in metres.
MaxAssignChoices == {40, 100}

\* What geocode_district returns when it finds the district.
GeoCoords == {<<2, 0>>}

\* The tags of a raw element: addr:street only when street is given,
\* addr:postcode only when postcode is not empty.
TagsOf(street, postcode) ==
    (IF street = None THEN EmptyDict ELSE ("addr:street" :> street))
    @@ (IF postcode = <<>> THEN EmptyDict ELSE ("addr:postcode" :> postcode))

Node(lat, tags) == [type |-> "node", lat |-> lat, lon |-> 0, tags |-> tags]
NodeWithoutLat(tags) == [type |-> "node", tags |-> tags]
Way(lat, tags) ==
    [type |-> "way", center |-> [lat |-> lat, lon |-> 0], tags |-> tags]
WayWithoutCenter(tags) == [type |-> "way", tags |-> tags]

\* Raw elements of a POI response: nodes at latitude step 1, with or without
\* a street hint "A" and an in-district postcode; ways centred at step 2,
\* with or without the hint; a node whose addr:street is the empty string; a
\* way without centre; a node of another district; a node without lat / lon.
PoiElements ==
    {Node(1, TagsOf(street, postcode)) :
        street \in {None, "A"}, postcode \in {<<>>, PostcodeInDistrict}}
    \cup {Way(2, TagsOf(street, <<>>)) : street \in {None, "A"}}
    \cup {Node(1, TagsOf("", <<>>)),
          WayWithoutCenter(TagsOf(None, <<>>)),
          Node(1, TagsOf("A", PostcodeElsewhere)),
          NodeWithoutLat(TagsOf(None, <<>>))}

\* Raw elements of a street response: ways named A centred at latitude
\* steps 0 and 4, a way named B centred at step 2, an unnamed way and a
\* named way without centre.
StreetElements ==
    {Way(0, [name |-> "A"]), Way(4, [name |-> "A"]), Way(2, [name |-> "B"]),
     Way(0, EmptyDict), WayWithoutCenter([name |-> "A"])}

\* Raw elements of the extraction runs.  POIs: nodes without postcode, with
\* a postcode of the district, of the district SE11 and of another district;
\* a way with a centre; a way without centre; a node without lat / lon.
\* Streets: named ways with a centre, an unnamed way, a way whose name is
\* the empty string and a named way without centre.
ExtractPoiElements ==
    {Node(1, TagsOf(None, postcode)) :
        postcode \in {<<>>, PostcodeInDistrict, PostcodeSubDistrict}}
    \cup {Node(1, TagsOf("A", PostcodeElsewhere)),
          Way(2, TagsOf(None, <<>>)),
          WayWithoutCenter(TagsOf(None, <<>>)),
          NodeWithoutLat(TagsOf(None, <<>>))}

ExtractStreetElements ==
    {Way(0, [name |-> "A"]), Way(2, [name |-> "B"]), Way(0, EmptyDict),
     Way(0, [name |-> ""]), WayWithoutCenter([name |-> "A"])}

\* Raw elements of the ranking runs: hinted nodes of four street names, and
\* three street geometries, two of them sharing the name A.
RankPoiElements ==
    {Node(1, TagsOf(street, <<>>)) : street \in {"A", "B", "C", "D"}}

RankStreetElements ==
    {Way(0, [name |-> "A"]), Way(4, [name |-> "A"]), Way(2, [name |-> "B"])}

SeqsUpTo(S, n) == UNION {[1..k -> S] : k \in 0..n}

\* A response body: the elements, each with an id of its own.
Response(elements) ==
    [elements |-> [i \in 1..Len(elements) |-> elements[i] @@ ("id" :> i)]]

PoiResponses == {Response(els) : els \in SeqsUpTo(PoiElements, MaxPois)}
StreetResponses == {Response(els) : els \in SeqsUpTo(StreetElements, MaxStreets)}
ExtractPoiResponses ==
    {Response(els) : els \in SeqsUpTo(ExtractPoiElements, MaxPois)}
ExtractStreetResponses ==
    {Response(els) : els \in SeqsUpTo(ExtractStreetElements, MaxStreets)}
RankPoiResponses ==
    {Response(els) : els \in SeqsUpTo(RankPoiElements, MaxRankPois)}
RankStreetResponses ==
    {Response(els) : els \in SeqsUpTo(RankStreetElements, MaxRankStreets)}

\* -------------------------------------------------- DistrictProcessor state

VARIABLES
    district,           \* self.district
    max_assign_m,       \* self.max_assign_m
    center_coords,      \* self.center_coords
    coords,             \* the local coords of process()
    pois,               \* self.pois
    streets,            \* self.streets
    street_poi_counts,  \* self.street_poi_counts, items in insertion order
    street_to_pois,     \* self.street_to_pois
    error,              \* self.error
    pc,                 \* where process() is
    result,             \* what process() returned
    exc,                \* the exception raised inside process(): (step, text)
    calls,              \* the calls process() made to utils, in order
    poi_data,           \* the local poi_data of process()
    highway_data        \* the local highway_data of process()

\* utils.py: the geocode cache and a call of geocode_district
VARIABLES
    district_cache,     \* table district_cache: key -> [lat, lon]
    street_cache,       \* table street_cache: key -> [lat, lon, area, raw_json]
    geo_pc,             \* where geocode_district is
    geo_call,           \* which call of geocode_district this is
    geo_district,       \* its argument district
    attempt,            \* tenacity's attempt number
    cached,             \* its local cached
    requests_made,      \* the external requests of the call, with outcomes
    results,            \* its local results
    geo_result,         \* what it returned, or the exception it raised
    first_call,         \* the outcome of the call before this one
    cache_ops,          \* the set_district / set_street calls made, in order
    got                 \* the get_district / get_street call just made, and its row

procVars == <<district, max_assign_m, center_coords, coords, pois, streets,
              street_poi_counts, street_to_pois, error, pc, result, exc, calls,
              poi_data, highway_data>>

utilVars == <<district_cache, street_cache, geo_pc, geo_call, geo_district,
              attempt, cached, requests_made, results, geo_result, first_call,
              cache_ops, got>>

\* utils.py: the limiters, the providers' requests, the street lookup;
\* routes/jobs.py: the job
VARIABLES
    bucket,             \* limiter -> half-seconds since its last item
    acquire,            \* the frame of the slot acquisition going on
    slot,               \* the limiter whose slot the running function took
    sent,               \* the requests sent since the top-level call began
    retried,            \* the frame of geocode_street / reverse_geocode /
                        \* query_overpass / build_retail_query
    lookup,             \* the frame of get_area_and_coords
    lookups,            \* the calls of get_area_and_coords that ended
    current_job         \* routes/jobs.py: current_job

netVars == <<bucket, acquire, slot, sent, retried, lookup, lookups, current_job>>

\* routes/jobs.py under Flask's threaded server: the request handlers
VARIABLES
    handlers            \* thread -> the frame of process_step it runs, and
                        \* the response it gave last

webVars == <<handlers>>

vars == <<procVars, utilVars, netVars, webVars>>

\* A fresh cache file, and geocode_district not called.
UtilsIdle ==
    /\ district_cache = EmptyDict
    /\ street_cache = EmptyDict
    /\ geo_pc = "idle"
    /\ geo_call = "none"
    /\ geo_district = <<>>
    /\ attempt = 0
    /\ cached = NoRow
    /\ requests_made = <<>>
    /\ results = <<>>
    /\ geo_result = NotReturned
    /\ first_call = EmptyDict
    /\ cache_ops = <<>>
    /\ got = EmptyDict

\* The limiters of lines 23-24, by the item name their callers pass.
Limiters == {"nominatim", "overpass"}

\* Time is counted in half-seconds: wait_time = 0.5 is one unit.
TicksPerSecond == 2

\* Rate(1, Duration.SECOND * 2) and Rate(1, Duration.SECOND): the length of
\* the window in which the bucket takes one item.
Window(limiter) ==
    IF limiter = "nominatim" THEN 2 * TicksPerSecond ELSE TicksPerSecond

\* No acquisition going on.
NotAcquiring ==
    [pc |-> "idle", caller |-> "none", limiter |-> "none",
     total_waited |-> 0, tries |-> 0]

\* None of the @retry functions of the street lookup and the map query running.
NotRunning == [fn |-> "none", pc |-> "idle", attempt |-> 0, value |-> <<>>]

\* get_area_and_coords not called.
NoLookup ==
    [pc |-> "idle", postcode |-> <<>>, street |-> <<>>, cached |-> NoRow,
     geocode_result |-> <<>>, value |-> <<>>]

\* current_job = None
NoJob == EmptyDict

\* Empty buckets, nothing sent, nothing running, no job.
NetIdle ==
    /\ bucket = [limiter \in Limiters |-> Window(limiter)]
    /\ acquire = NotAcquiring
    /\ slot = "none"
    /\ sent = <<>>
    /\ retried = NotRunning
    /\ lookup = NoLookup
    /\ lookups = <<>>
    /\ current_job = NoJob

\* The threads that serve POST /step.
Handlers == {1, 2}

\* No response given yet.
NoResponse ==
    [status |-> 0, error |-> "", completed |-> FALSE, processed |-> 0,
     result |-> EmptyDict]

\* A handler that runs nothing.
NoHandler == [pc |-> "idle", idx |-> 0, response |-> NoResponse]

WebIdle == handlers = [t \in Handlers |-> NoHandler]

\* A processor that is not running.
ProcessorIdle ==
    /\ district = <<>>
    /\ max_assign_m = 0
    /\ center_coords = NoCoords
    /\ coords = NotReturned
    /\ pois = <<>>
    /\ streets = <<>>
    /\ street_poi_counts = <<>>
    /\ street_to_pois = EmptyDict
    /\ error = NoError
    /\ pc = "none"
    /\ result = EmptyDict
    /\ exc = <<>>
    /\ calls = <<>>
    /\ poi_data = EmptyDict
    /\ highway_data = EmptyDict

\* The processor's fields that _build_result and _build_error_result read.
SelfOf(d, ps, strs, counts, to_pois, err) ==
    [district |-> d, pois |-> ps, streets |-> strs,
     street_poi_counts |-> counts, street_to_pois |-> to_pois, error |-> err]

\* __init__, lines 30-43
InitWith(districts, max_assigns) ==
    /\ district \in districts
    /\ max_assign_m \in max_assigns
    /\ center_coords = NoCoords
    /\ coords = NotReturned
    /\ pois = <<>>
    /\ streets = <<>>
    /\ street_poi_counts = <<>>
    /\ street_to_pois = EmptyDict
    /\ error = NoError
    /\ pc = "initialized"
    /\ result = EmptyDict
    /\ exc = <<>>
    /\ calls = <<>>
    /\ poi_data = EmptyDict
    /\ highway_data = EmptyDict
    /\ UtilsIdle
    /\ NetIdle
    /\ WebIdle

Init == InitWith(Districts, MaxAssignChoices)

\* The statements of process() that the try block of lines 52-94 encloses
\* (the mutant leaves the final _build_result call outside it).
InTryButResultBuilding(step) == step # "result_building"

InTry(step) == TRUE

\* self.error = ...; return self._build_error_result()
Fail(message) ==
    /\ error' = message
    /\ result' = _build_error_result(
                    SelfOf(district, pois, streets, street_poi_counts,
                           street_to_pois, message))
    /\ pc' = "failed"

\* A statement of step raises an exception whose str() is text: lines 92-94
\* when the try block encloses the statement, and otherwise the exception
\* leaves process().
Raise(step, text) ==
    /\ exc' = <<step, text>>
    /\ IF InTry(step)
       THEN Fail(text)
       ELSE pc' = "raised" /\ UNCHANGED <<error, result>>

\* The call of process().
Start ==
    /\ pc = "initialized"
    /\ pc' = "geocoding"
    /\ UNCHANGED <<district, max_assign_m, center_coords, coords, pois, streets,
                   street_poi_counts, street_to_pois, error, result, exc,
                   calls, poi_data, highway_data>>
    /\ UNCHANGED <<utilVars, netVars, webVars>>

\* line 55, `if not coords` (the mutant never takes the branch).
NeverNotCoords(returned) == FALSE

NotCoords(returned) == returned = NoCoords

\* Step 1, lines 54-60: geocode_district returns a pair or None.
Geocode ==
    /\ pc = "geocoding"
    /\ calls' = Append(calls, "geocode_district")
    /\ \E returned \in GeoCoords \cup {NoCoords} :
         /\ coords' = returned
         /\ IF NotCoords(returned)
            THEN /\ Fail(Message("Could not geocode district: ", district))
                 /\ UNCHANGED <<center_coords, exc>>
            ELSE /\ center_coords' = returned
                 /\ IF returned = NoCoords
                       THEN \* line 60: lat, lon = None
                         Raise("geocoding",
                               Message("cannot unpack non-iterable NoneType object",
                                       <<>>))
                    ELSE /\ pc' = "fetching_pois"
                         /\ UNCHANGED <<error, result, exc>>
    /\ UNCHANGED <<district, max_assign_m, pois, streets, street_poi_counts,
                   street_to_pois, poi_data, highway_data>>
    /\ UNCHANGED <<utilVars, netVars, webVars>>

\* line 76, `if not self.pois` (the mutant never takes the branch).
NeverNoPois(ps) == FALSE

NoPois(ps) == ps = <<>>

\* Step 2, lines 63-77: the POI query returns data; extraction; the
\* short-circuit of a district without POIs.
FetchPois(responses) ==
    /\ pc = "fetching_pois"
    /\ calls' = Append(calls, "poi_query")
    /\ \E data \in responses :
         /\ poi_data' = data
         /\ IF ExtractPoisRaises(data)
            THEN /\ pois' = pois
                 /\ Raise("poi_extraction", Message("'lat'", <<>>))
            ELSE /\ pois' = _extract_pois(data, district)
                 /\ IF NoPois(pois')
                    THEN /\ result' = _build_result(
                                SelfOf(district, pois', streets,
                                       street_poi_counts, street_to_pois, error),
                                <<>>)
                         /\ pc' = "done_empty"
                         /\ UNCHANGED <<error, exc>>
                    ELSE /\ pc' = "fetching_streets"
                         /\ UNCHANGED <<error, result, exc>>
    /\ UNCHANGED <<district, max_assign_m, center_coords, coords, streets,
                   street_poi_counts, street_to_pois, highway_data>>
    /\ UNCHANGED <<utilVars, netVars, webVars>>

\* Step 3, lines 80-82: the street query returns data; extraction.
FetchStreets(responses) ==
    /\ pc = "fetching_streets"
    /\ calls' = Append(calls, "street_query")
    /\ \E data \in responses :
         /\ highway_data' = data
         /\ streets' = _extract_streets(data)
    /\ pc' = "attributing"
    /\ UNCHANGED <<district, max_assign_m, center_coords, coords, pois,
                   street_poi_counts, street_to_pois, error, result, exc,
                   poi_data>>
    /\ UNCHANGED <<utilVars, netVars, webVars>>

\* Step 4, line 85
Attribute ==
    /\ pc = "attributing"
    /\ LET attributed == _attribute_pois_to_streets(pois, streets, max_assign_m)
       IN  /\ street_poi_counts' = attributed.street_counts
           /\ street_to_pois' = attributed.street_to_pois
    /\ pc' = "ranking"
    /\ UNCHANGED <<district, max_assign_m, center_coords, coords, pois, streets, error,
                   result, exc, calls, poi_data, highway_data>>
    /\ UNCHANGED <<utilVars, netVars, webVars>>

\* Step 5 and the return, lines 88-90
Rank ==
    /\ pc = "ranking"
    /\ result' = _build_result(
                    SelfOf(district, pois, streets, street_poi_counts,
                           street_to_pois, error),
                    _rank_streets(street_poi_counts))
    /\ pc' = "done"
    /\ UNCHANGED <<district, max_assign_m, center_coords, coords, pois, streets,
                   street_poi_counts, street_to_pois, error, exc, calls,
                   poi_data, highway_data>>
    /\ UNCHANGED <<utilVars, netVars, webVars>>

\* The steps of process() in which a statement may raise besides the ones
\* above, where process() is when it does, and the call in progress.
RaisingSteps ==
    {"geocoding", "poi_query", "street_query", "street_extraction",
     "attribution", "ranking", "result_building"}

PcOfStep(step) ==
    CASE step = "geocoding" -> "geocoding"
      [] step = "poi_query" -> "fetching_pois"
      [] step \in {"street_query", "street_extraction"} -> "fetching_streets"
      [] step = "attribution" -> "attributing"
      [] step \in {"ranking", "result_building"} -> "ranking"

CallOfStep(step) ==
    CASE step = "geocoding" -> <<"geocode_district">>
      [] step = "poi_query" -> <<"poi_query">>
      [] step \in {"street_query", "street_extraction"} -> <<"street_query">>
      [] OTHER -> <<>>

\* str(e): tenacity's RetryError once the three attempts of geocode_district
\* or query_overpass are used up, the limiter's BucketFullException of
\* query_overpass, or an error of the data handled.
ExceptionTexts(step) ==
    IF step = "geocoding"
    THEN {Message("RetryError", <<>>)}
    ELSE IF step \in {"poi_query", "street_query"}
         THEN {Message("RetryError", <<>>), Message("BucketFullException", <<>>)}
         ELSE {Message("TypeError", <<>>)}

\* A statement of one of the steps raises.
StepRaises ==
    \E step \in RaisingSteps :
        /\ pc = PcOfStep(step)
        /\ calls' = calls \o CallOfStep(step)
        /\ \E text \in ExceptionTexts(step) : Raise(step, text)
        /\ UNCHANGED <<district, max_assign_m, center_coords, coords, pois, streets,
                       street_poi_counts, street_to_pois, poi_data,
                       highway_data>>
        /\ UNCHANGED <<utilVars, netVars, webVars>>

Next ==
    \/ Start
    \/ Geocode
    \/ FetchPois(PoiResponses)
    \/ FetchStreets(StreetResponses)
    \/ Attribute
    \/ Rank
    \/ StepRaises

Spec == Init /\ [][Next]_vars

\* The ranking runs: the same processor on responses of up to MaxRankPois
\* hinted POIs.
InitRank == InitWith({SE1}, {100})

NextRank ==
    \/ Start
    \/ Geocode
    \/ FetchPois(RankPoiResponses)
    \/ FetchStreets(RankStreetResponses)
    \/ Attribute
    \/ Rank
    \/ StepRaises

SpecRank == InitRank /\ [][NextRank]_vars

\* The extraction runs: the same processor, for either spelling of the
\* district, on responses that vary what extraction looks at.
InitExtract == InitWith(Districts, {100})

NextExtract ==
    \/ Start
    \/ Geocode
    \/ FetchPois(ExtractPoiResponses)
    \/ FetchStreets(ExtractStreetResponses)
    \/ Attribute
    \/ Rank
    \/ StepRaises

SpecExtract == InitExtract /\ [][NextExtract]_vars

\* The postcode-consistency runs: a processor of district SE1 whose
\* street_to_pois holds, for the street A, any list of up to MaxFilterPois
\* POIs with a postcode of the district, a postcode of another district or
\* none, on which _filter_streets_by_postcode('A') is called.
FilterPois ==
    {MakePoi(Node(1, TagsOf(None, postcode)) @@ ("id" :> 1)) :
        postcode \in {<<>>, PostcodeInDistrict, PostcodeElsewhere}}

InitFilter ==
    /\ district = SE1
    /\ max_assign_m = 100
    /\ center_coords = NoCoords
    /\ coords = NotReturned
    /\ pois = <<>>
    /\ streets = <<>>
    /\ street_poi_counts = <<>>
    /\ \E ps \in SeqsUpTo(FilterPois, MaxFilterPois) :
          street_to_pois = ("A" :> ps)
    /\ error = NoError
    /\ pc = "filter_called"
    /\ result = EmptyDict
    /\ exc = <<>>
    /\ calls = <<>>
    /\ poi_data = EmptyDict
    /\ highway_data = EmptyDict
    /\ UtilsIdle
    /\ NetIdle
    /\ WebIdle

\* The call self._filter_streets_by_postcode('A') returns.
FilterStreet ==
    /\ pc = "filter_called"
    /\ result' = [included |->
                     _filter_streets_by_postcode("A", street_to_pois, district)]
    /\ pc' = "filter_returned"
    /\ UNCHANGED <<district, max_assign_m, center_coords, coords, pois, streets,
                   street_poi_counts, street_to_pois, error, exc, calls,
                   poi_data, highway_data>>
    /\ UNCHANGED <<utilVars, netVars, webVars>>

NextFilter == FilterStreet

SpecFilter == InitFilter /\ [][NextFilter]_vars

\* ------------------------------------------------ utils.geocode_district

\* stop_after_attempt(3)
StopAfterAttempt == 3

\* Longest candidate list of the secondary provider.
MaxCandidates == 2

E1 == <<"E", "1">>
SE1Padded == <<"S", "E", "1", " ">>

\* The arguments geocode_district is called with.
GeoDistricts == {SE1, se1, SE1Padded, E1}

\* What the primary provider's request comes to: an exception, a response
\* that is not ok, a response without result, a response with a centroid.
PrimaryReplies ==
    {[kind |-> "exception", ok |-> FALSE, data |-> EmptyDict],
     [kind |-> "response", ok |-> FALSE, data |-> [status |-> 404]],
     [kind |-> "response", ok |-> TRUE, data |-> [status |-> 404]],
     [kind |-> "response", ok |-> TRUE,
      data |-> [status |-> 200,
                result |-> [latitude |-> 515, longitude |-> -1]]]}

\* lines 191-193: response.ok and data.get('status') == 200 and
\* data.get('result')
PrimaryMatched(reply) ==
    /\ reply.kind = "response"
    /\ reply.ok
    /\ Get(reply.data, "status", 0) = 200
    /\ "result" \in DOMAIN reply.data

\* A candidate of the secondary provider.
Candidate(lat, lon, postcode) ==
    [lat |-> lat, lon |-> lon,
     address |-> IF postcode = <<>> THEN EmptyDict ELSE [postcode |-> postcode]]

Candidates ==
    {Candidate(510, -1, PostcodeInDistrict),
     Candidate(512, -3, <<"s", "e", "1", " ", "7", "p", "b">>),
     Candidate(513, -2, PostcodeInDistrict),
     Candidate(520, 1, PostcodeSubDistrict),
     Candidate(500, 5, <<>>)}

\* What the secondary provider's request comes to: a RequestException (a
\* transport failure, or raise_for_status on an error status), or a list of
\* candidates.
SecondaryReplies ==
    {[kind |-> "error", results |-> <<>>]}
    \cup {[kind |-> "results", results |-> list] :
            list \in SeqsUpTo(Candidates, MaxCandidates)}

\* config.USER_AGENT
USER_AGENT == "StreetSignal/1.0 (salgadom7503@gmail.com)"

\* requests.get / requests.post without headers=, and with
\* headers={'User-Agent': config.USER_AGENT}
NoHeaders == EmptyDict
IdentifyingHeaders == ("User-Agent" :> USER_AGENT)

\* A request as the providers see it: the function sending it, the address,
\* the headers, the limiter whose slot the function took for it, and what
\* came of it.
Request(fn, url, headers, taken, outcome) ==
    [fn |-> fn, url |-> url, headers |-> headers, slot |-> taken,
     reply |-> outcome]

\* lines 186-189 and 220-225
PrimaryRequestOf(taken, outcome) ==
    Request("geocode_district", "api.postcodes.io/outcodes", NoHeaders, taken,
            outcome)

SecondaryRequestOf(taken, outcome) ==
    Request("geocode_district", "nominatim/search", IdentifyingHeaders, taken,
            outcome)

\* line 181, `if cached` (the mutant never takes the branch).
NeverCacheHit(row) == FALSE

CacheHit(row) == row # NoRow

\* retry_if_exception_type((requests.RequestException, requests.Timeout)):
\* what makes tenacity run the function again (the mutant: an empty list of
\* candidates too).
RetriedOrEmpty(reply) == reply.results = <<>>

Retried(reply) == reply.kind = "error"

\* geocode_district(d) is called: for the first time, or again after the
\* first call ended.
CallGeocode ==
    /\ \/ geo_pc = "idle" /\ geo_call = "none"
       \/ geo_pc \in {"returned", "raised"} /\ geo_call = "first"
    /\ geo_call' = IF geo_call = "none" THEN "first" ELSE "second"
    /\ first_call' =
          IF geo_call = "none"
          THEN EmptyDict
          ELSE [district |-> geo_district, returned |-> geo_pc = "returned",
                result |-> geo_result, requests |-> Len(requests_made)]
    /\ \E d \in GeoDistricts : geo_district' = d
    /\ attempt' = 1
    /\ cached' = NoRow
    /\ requests_made' = <<>>
    /\ results' = <<>>
    /\ geo_result' = NotReturned
    /\ geo_pc' = "cache_check"
    /\ sent' = <<>>
    /\ slot' = "none"
    /\ UNCHANGED <<district_cache, street_cache, cache_ops, got>>
    /\ UNCHANGED <<procVars, webVars, bucket, acquire, retried, lookup, lookups,
                   current_job>>

\* lines 180-182
CacheCheck ==
    /\ geo_pc = "cache_check"
    /\ cached' = get_district(district_cache, geo_district)
    /\ IF CacheHit(cached')
       THEN /\ geo_result' = <<cached'.lat, cached'.lon>>
            /\ geo_pc' = "returned"
       ELSE /\ geo_pc' = "primary"
            /\ UNCHANGED geo_result
    /\ UNCHANGED <<district_cache, street_cache, geo_call, geo_district, attempt,
                   requests_made, results, first_call, cache_ops, got>>
    /\ UNCHANGED <<procVars, netVars, webVars>>

\* lines 185 and 202, try / except Exception: what the primary request and
\* the handling of its response raise is caught (the mutant: a transport
\* exception is not).
CaughtUnlessTransport(reply) == reply.kind # "exception"

Caught(reply) == TRUE

\* lines 185-204: the request to the primary provider
PrimaryRequest ==
    /\ geo_pc = "primary"
    /\ \E reply \in PrimaryReplies :
         IF PrimaryMatched(reply)
         THEN LET lat == Number(reply.data.result.latitude)
                  lon == Number(reply.data.result.longitude)
              IN  /\ requests_made' = Append(requests_made, <<"primary", "matched">>)
                  /\ sent' = Append(sent, PrimaryRequestOf(slot, "matched"))
                  /\ district_cache' =
                        set_district(district_cache, geo_district, lat, lon)
                  /\ geo_result' = <<lat, lon>>
                  /\ geo_pc' = "returned"
         ELSE /\ requests_made' = Append(requests_made, <<"primary", "failed">>)
              /\ sent' = Append(sent, PrimaryRequestOf(slot, "failed"))
              /\ IF Caught(reply)
                 THEN geo_pc' = "limiter" /\ UNCHANGED geo_result
                 ELSE geo_pc' = "raised" /\ geo_result' = <<"Exception">>
              /\ UNCHANGED district_cache
    /\ UNCHANGED <<street_cache, geo_call, geo_district, attempt, cached,
                   results, first_call, cache_ops, got, slot>>
    /\ UNCHANGED <<procVars, webVars, bucket, acquire, retried, lookup, lookups,
                   current_job>>

\* line 207: acquire_with_wait gets a slot, or the bucket is still full
\* after the wait and the last try_acquire raises BucketFullException, which
\* tenacity does not retry.
AcquireLimiter ==
    /\ geo_pc = "limiter"
    /\ \/ geo_pc' = "secondary" /\ slot' = "nominatim" /\ UNCHANGED geo_result
       \/ /\ geo_pc' = "raised"
          /\ geo_result' = <<"BucketFullException">>
          /\ UNCHANGED slot
    /\ UNCHANGED <<district_cache, street_cache, geo_call, geo_district, attempt,
                   cached, requests_made, results, first_call, cache_ops, got,
                   sent>>
    /\ UNCHANGED <<procVars, webVars, bucket, acquire, retried, lookup, lookups,
                   current_job>>

\* lines 220-267: the request to the secondary provider and what follows it
SecondaryRequest ==
    /\ geo_pc = "secondary"
    /\ \E reply \in SecondaryReplies :
         IF Retried(reply)
         THEN /\ requests_made' = Append(requests_made, <<"secondary", reply.kind>>)
              /\ IF attempt < StopAfterAttempt
                 THEN /\ attempt' = attempt + 1
                      /\ geo_pc' = "cache_check"
                      /\ UNCHANGED geo_result
                 ELSE /\ geo_pc' = "raised"
                      /\ geo_result' = <<"RetryError">>
                      /\ UNCHANGED attempt
              /\ sent' = Append(sent, SecondaryRequestOf(slot, reply.kind))
              /\ UNCHANGED <<district_cache, results>>
         ELSE /\ requests_made' = Append(requests_made, <<"secondary", reply.kind>>)
              /\ sent' = Append(sent, SecondaryRequestOf(slot, reply.kind))
              /\ results' = reply.results
              /\ geo_pc' = "returned"
              /\ UNCHANGED attempt
              /\ IF reply.results = <<>>
                 THEN /\ geo_result' = NoCoords
                      /\ UNCHANGED district_cache
                 ELSE LET found == FromCandidates(reply.results, geo_district)
                      IN  /\ district_cache' =
                                set_district(district_cache, geo_district,
                                             found[1], found[2])
                          /\ geo_result' = found
    /\ slot' = "none"
    /\ UNCHANGED <<street_cache, geo_call, geo_district, cached, first_call,
                   cache_ops, got>>
    /\ UNCHANGED <<procVars, webVars, bucket, acquire, retried, lookup, lookups,
                   current_job>>

InitGeo == ProcessorIdle /\ UtilsIdle /\ NetIdle /\ WebIdle

NextGeo ==
    \/ CallGeocode
    \/ CacheCheck
    \/ PrimaryRequest
    \/ AcquireLimiter
    \/ SecondaryRequest

SpecGeo == InitGeo /\ [][NextGeo]_vars

\* ------------------------------------------------------ utils.GeocodeCache

\* The longest sequence of set_district / set_street calls of the cache runs.
MaxCacheOps == 3

\* The postcodes and street names the cache is called with (the street
\* geocoding route passes the request's texts, stripped, as they are).
PostcodeArgs == {<<"e">>, <<"E", " ">>, <<"E", "|", "2">>}
StreetArgs == {<<"B">>, <<" ", "b">>, <<"2", "|", "b">>}
CacheDistricts == {SE1, <<"s", "e", "1", " ">>}
CacheLats == {1, 2}

CacheSetDistrict ==
    /\ Len(cache_ops) < MaxCacheOps
    /\ \E id \in CacheDistricts, lat \in CacheLats :
         /\ district_cache' = set_district(district_cache, id, lat, 0)
         /\ cache_ops' = Append(cache_ops, [op |-> "set_district", district |-> id,
                                            lat |-> lat, lon |-> 0])
    /\ got' = EmptyDict
    /\ UNCHANGED street_cache
    /\ UNCHANGED <<geo_pc, geo_call, geo_district, attempt, cached,
                   requests_made, results, geo_result, first_call>>
    /\ UNCHANGED <<procVars, netVars, webVars>>

CacheGetDistrict ==
    /\ \E id \in CacheDistricts :
         got' = [op |-> "get_district", district |-> id,
                 row |-> get_district(district_cache, id)]
    /\ UNCHANGED <<district_cache, street_cache, cache_ops>>
    /\ UNCHANGED <<geo_pc, geo_call, geo_district, attempt, cached,
                   requests_made, results, geo_result, first_call>>
    /\ UNCHANGED <<procVars, netVars, webVars>>

CacheSetStreet ==
    /\ Len(cache_ops) < MaxCacheOps
    /\ \E postcode \in PostcodeArgs, street \in StreetArgs, lat \in CacheLats :
         /\ street_cache' = set_street(street_cache, postcode, street, lat, 0,
                                       "area", "raw")
         /\ cache_ops' = Append(cache_ops,
                                [op |-> "set_street", postcode |-> postcode,
                                 street |-> street, lat |-> lat, lon |-> 0,
                                 area |-> "area", raw |-> "raw"])
    /\ got' = EmptyDict
    /\ UNCHANGED district_cache
    /\ UNCHANGED <<geo_pc, geo_call, geo_district, attempt, cached,
                   requests_made, results, geo_result, first_call>>
    /\ UNCHANGED <<procVars, netVars, webVars>>

CacheGetStreet ==
    /\ \E postcode \in PostcodeArgs, street \in StreetArgs :
         got' = [op |-> "get_street", postcode |-> postcode, street |-> street,
                 row |-> get_street(street_cache, postcode, street)]
    /\ UNCHANGED <<district_cache, street_cache, cache_ops>>
    /\ UNCHANGED <<geo_pc, geo_call, geo_district, attempt, cached,
                   requests_made, results, geo_result, first_call>>
    /\ UNCHANGED <<procVars, netVars, webVars>>

InitCache == ProcessorIdle /\ UtilsIdle /\ NetIdle /\ WebIdle

NextCache ==
    \/ CacheSetDistrict
    \/ CacheGetDistrict
    \/ CacheSetStreet
    \/ CacheGetStreet

SpecCache == InitCache /\ [][NextCache]_vars

\* ------------------------------------------------ utils.get_area_and_coords

\* The number of calls of get_area_and_coords in a run.
MaxLookups == 2

\* The postcode districts and streets the lookup is called with; the first
\* two streets have one cache key.
LookupPostcodes == {<<"E", "1">>}
LookupStreets == {<<"a">>, <<" ", "A">>, <<"b">>}

\* None where a float is expected.
NoNumber == <<>>

\* None where geocode_street returns a dict.
NoResult == EmptyDict

\* What the request of geocode_street comes to: a RequestException, an empty
\* list, or a list of one place (limit = 1).
StreetReplies ==
    {[kind |-> "error", data |-> <<>>],
     [kind |-> "data", data |-> <<>>],
     [kind |-> "data", data |-> <<[lat |-> 515, lon |-> -1, name |-> "a"]>>]}

\* What the request of reverse_geocode comes to: a RequestException, or the
\* JSON object of the place, with or without an address.
ReverseReplies ==
    {[kind |-> "error", data |-> EmptyDict],
     [kind |-> "data",
      data |-> [address |-> [suburb |-> "Shoreditch", city |-> "London"]]],
     [kind |-> "data",
      data |-> [address |-> [neighbourhood |-> "", city |-> "London"]]],
     [kind |-> "data", data |-> [error |-> "Unable to geocode"]]}

\* _pick_area, lines 443-451: the first of the fields that holds something.
AreaFields ==
    <<"neighbourhood", "suburb", "city_district", "borough", "town", "city">>

RECURSIVE FirstTruthy(_, _)
FirstTruthy(address, fields) ==
    IF fields = <<>>
    THEN ""
    ELSE IF Truthy(Get(address, Head(fields), None))
         THEN address[Head(fields)]
         ELSE FirstTruthy(address, Tail(fields))

_pick_area(address) ==
    IF address = EmptyDict THEN "" ELSE FirstTruthy(address, AreaFields)

\* text or ''
OrEmpty(text) == IF Truthy(text) THEN text ELSE ""

\* line 556: the cached row counts when it holds both coordinates (the
\* mutant: never).
NeverValidHit(row) == FALSE

ValidHit(row) == row # NoRow /\ row.lat # NoNumber /\ row.lon # NoNumber

\* lines 478, 524 and 314: the headers of the three functions.
HeadersOf(fn) == IdentifyingHeaders

\* The address each of the three functions sends its request to.
UrlOf(fn) ==
    CASE fn = "geocode_street" -> "nominatim/search"
      [] fn = "reverse_geocode" -> "nominatim/reverse"
      [] fn = "query_overpass" -> "overpass/interpreter"

\* lines 470, 515 and 311: the limiter each of the three functions asks.
LimiterOf(fn) == IF fn = "query_overpass" THEN "overpass" ELSE "nominatim"

\* stop_after_attempt(3) of lines 455, 500 and 296 (the mutant: one more).
OneMoreAttempt(n) == n <= StopAfterAttempt

AnotherAttempt(n) == n < StopAfterAttempt

\* A call of one of the three functions: tenacity's first attempt.
Running(fn) == [fn |-> fn, pc |-> "acquire", attempt |-> 1, value |-> <<>>]

\* The lookup ends with the local cached = row: it returned value, or an
\* exception left it.
Ended(how, row, value) ==
    /\ lookup' = [lookup EXCEPT !.pc = how, !.cached = row, !.value = value]
    /\ lookups' = Append(lookups, [postcode |-> lookup.postcode,
                                   street |-> lookup.street,
                                   pc |-> how, value |-> value])

\* get_area_and_coords(postcode, street) is called.
CallLookup ==
    /\ geo_call = "none"
    /\ lookup.pc \in {"idle", "returned", "raised"}
    /\ retried.fn # "query_overpass"
    /\ Len(lookups) < MaxLookups
    /\ \E postcode \in LookupPostcodes, street \in LookupStreets :
         lookup' = [NoLookup EXCEPT !.pc = "cache_check",
                                    !.postcode = postcode, !.street = street]
    /\ retried' = NotRunning
    /\ sent' = <<>>
    /\ slot' = "none"
    /\ UNCHANGED <<bucket, acquire, lookups, current_job>>
    /\ UNCHANGED <<procVars, utilVars, webVars>>

\* lines 555-564: the cache, and on a miss the call of geocode_street
LookupCacheCheck ==
    /\ lookup.pc = "cache_check"
    /\ LET row == get_street(street_cache, lookup.postcode, lookup.street)
       IN  IF ValidHit(row)
           THEN /\ Ended("returned", row, [area |-> OrEmpty(row.area),
                                           lat |-> row.lat, lon |-> row.lon])
                /\ UNCHANGED retried
           ELSE /\ lookup' = [lookup EXCEPT !.pc = "geocode", !.cached = row]
                /\ retried' = Running("geocode_street")
                /\ UNCHANGED lookups
    /\ UNCHANGED <<bucket, acquire, slot, sent, current_job>>
    /\ UNCHANGED <<procVars, utilVars, webVars>>

\* lines 470, 515 and 311: the function takes a slot of its limiter, or the
\* bucket is full to the end and BucketFullException, which tenacity does not
\* retry, leaves the function.
AcquireSlot(fn) ==
    /\ retried.fn = fn
    /\ retried.pc = "acquire"
    /\ \/ /\ slot' = LimiterOf(fn)
          /\ retried' = [retried EXCEPT !.pc = "request"]
       \/ /\ retried' = [retried EXCEPT !.pc = "raised",
                                        !.value = <<"BucketFullException">>]
          /\ UNCHANGED slot
    /\ UNCHANGED <<bucket, acquire, sent, lookup, lookups, current_job>>
    /\ UNCHANGED <<procVars, utilVars, webVars>>

\* The request of fn came to `outcome`; tenacity runs fn again after a
\* RequestException unless this was the last attempt, and then raises
\* RetryError; any other outcome is the function's to return.
Requested(fn, outcome, value) ==
    /\ retried.fn = fn
    /\ retried.pc = "request"
    /\ sent' = Append(sent, Request(fn, UrlOf(fn), HeadersOf(fn), slot, outcome))
    /\ slot' = "none"
    /\ retried' =
          IF outcome = "error"
          THEN IF AnotherAttempt(retried.attempt)
               THEN [retried EXCEPT !.pc = "acquire",
                                    !.attempt = retried.attempt + 1]
               ELSE [retried EXCEPT !.pc = "raised", !.value = <<"RetryError">>]
          ELSE [retried EXCEPT !.pc = "returned", !.value = value]
    /\ UNCHANGED <<bucket, acquire, lookup, lookups, current_job>>
    /\ UNCHANGED <<procVars, utilVars, webVars>>

\* geocode_street, lines 472-496
GeocodeStreetRequest ==
    \E reply \in StreetReplies :
        Requested("geocode_street", reply.kind,
                  IF reply.data = <<>>
                  THEN NoResult
                  ELSE [lat |-> Number(reply.data[1].lat),
                        lon |-> Number(reply.data[1].lon),
                        raw |-> reply.data[1]])

\* reverse_geocode, lines 517-538
ReverseRequest ==
    \E reply \in ReverseReplies :
        Requested("reverse_geocode", reply.kind,
                  [area |-> _pick_area(Get(reply.data, "address", EmptyDict)),
                   raw |-> reply.data])

\* lines 565-572: nothing found is cached and returned; a place found is
\* reverse geocoded
LookupAfterGeocode ==
    /\ lookup.pc = "geocode"
    /\ retried.pc = "returned"
    /\ IF retried.value = NoResult
       THEN /\ street_cache' =
                  set_street(street_cache, lookup.postcode, lookup.street,
                             NoNumber, NoNumber, "",
                             [error |-> "geocode_not_found"])
            /\ Ended("returned", lookup.cached,
                     [area |-> "", lat |-> NoNumber, lon |-> NoNumber])
            /\ UNCHANGED retried
       ELSE /\ lookup' = [lookup EXCEPT !.pc = "reverse",
                                        !.geocode_result = retried.value]
            /\ retried' = Running("reverse_geocode")
            /\ UNCHANGED <<street_cache, lookups>>
    /\ UNCHANGED <<bucket, acquire, slot, sent, current_job>>
    /\ UNCHANGED <<district_cache, geo_pc, geo_call, geo_district, attempt,
                   cached, requests_made, results, geo_result, first_call,
                   cache_ops, got>>
    /\ UNCHANGED <<procVars, webVars>>

\* lines 573-581
LookupAfterReverse ==
    /\ lookup.pc = "reverse"
    /\ retried.pc = "returned"
    /\ LET lat == lookup.geocode_result.lat
           lon == lookup.geocode_result.lon
           area == OrEmpty(retried.value.area)
       IN  /\ street_cache' =
                 set_street(street_cache, lookup.postcode, lookup.street,
                            lat, lon, area,
                            [geocode |-> lookup.geocode_result.raw,
                             reverse |-> retried.value.raw])
           /\ Ended("returned", lookup.cached,
                    [area |-> area, lat |-> lat, lon |-> lon])
    /\ UNCHANGED <<bucket, acquire, slot, sent, retried, current_job>>
    /\ UNCHANGED <<district_cache, geo_pc, geo_call, geo_district, attempt,
                   cached, requests_made, results, geo_result, first_call,
                   cache_ops, got>>
    /\ UNCHANGED <<procVars, webVars>>

\* An exception of geocode_street or reverse_geocode leaves
\* get_area_and_coords, which catches nothing.
LookupRaises ==
    /\ lookup.pc \in {"geocode", "reverse"}
    /\ retried.pc = "raised"
    /\ Ended("raised", lookup.cached, retried.value)
    /\ UNCHANGED <<bucket, acquire, slot, sent, retried, current_job>>
    /\ UNCHANGED <<procVars, utilVars, webVars>>

\* query_overpass(query) is called.
CallOverpass ==
    /\ geo_call = "none"
    /\ lookup.pc = "idle"
    /\ retried.pc = "idle"
    /\ retried' = Running("query_overpass")
    /\ sent' = <<>>
    /\ slot' = "none"
    /\ UNCHANGED <<bucket, acquire, lookup, lookups, current_job>>
    /\ UNCHANGED <<procVars, utilVars, webVars>>

\* What the request of query_overpass comes to: a RequestException, or the
\* JSON object of the elements.
OverpassReplies ==
    {[kind |-> "error", data |-> EmptyDict],
     [kind |-> "data", data |-> Response(<<>>)],
     [kind |-> "data", data |-> Response(<<Way(2, [highway |-> "residential", name |-> "A"])>>)]}

\* query_overpass, lines 313-325
OverpassRequest ==
    \E reply \in OverpassReplies :
        Requested("query_overpass", reply.kind, reply.data)

\* The four functions that send requests, each called on its own:
\* geocode_district, get_area_and_coords (geocode_street and reverse_geocode)
\* and query_overpass.
InitNet == ProcessorIdle /\ UtilsIdle /\ NetIdle /\ WebIdle

NextNet ==
    \/ lookup.pc = "idle" /\ retried.pc = "idle" /\ NextGeo
    \/ CallLookup
    \/ LookupCacheCheck
    \/ AcquireSlot("geocode_street")
    \/ GeocodeStreetRequest
    \/ LookupAfterGeocode
    \/ AcquireSlot("reverse_geocode")
    \/ ReverseRequest
    \/ LookupAfterReverse
    \/ LookupRaises
    \/ CallOverpass
    \/ AcquireSlot("query_overpass")
    \/ OverpassRequest

SpecNet == InitNet /\ [][NextNet]_vars

\* ------------------------------------------------ utils.acquire_with_wait

\* wait_time = 0.5 and max_wait = 10.0, in half-seconds
wait_time == TicksPerSecond \div 2
max_wait == 10 * TicksPerSecond

\* The functions that take their slot with acquire_with_wait (lines 207, 470
\* and 515); query_overpass calls try_acquire itself (line 311).
WaitingCallers == {"geocode_district", "geocode_street", "reverse_geocode"}

\* limiter.try_acquire(item): the bucket takes the item when its window holds
\* none, and raises BucketFullException otherwise.
Free(limiter) == bucket[limiter] >= Window(limiter)
Taken(limiter) == [bucket EXCEPT ![limiter] = 0]

\* The buckets after `ticks` half-seconds.
Aged(ticks) ==
    [limiter \in Limiters |-> Min(bucket[limiter] + ticks, Window(limiter))]

\* line 39, `while total_waited < max_wait` (the mutant: <=).
LoopOneMore(waited) == waited <= max_wait

LoopContinues(waited) == waited < max_wait

\* acquire_with_wait(nominatim_limiter, "nominatim") is called: lines 36-37
CallAcquireWithWait ==
    /\ acquire.pc \in {"idle", "acquired", "raised"}
    /\ \E caller \in WaitingCallers :
         acquire' = [pc |-> "polling", caller |-> caller,
                     limiter |-> "nominatim", total_waited |-> 0, tries |-> 0]
    /\ UNCHANGED <<bucket, slot, sent, retried, lookup, lookups, current_job>>
    /\ UNCHANGED <<procVars, utilVars, webVars>>

\* lines 39-45: one round of the loop
Poll ==
    /\ acquire.pc = "polling"
    /\ LoopContinues(acquire.total_waited)
    /\ IF Free(acquire.limiter)
       THEN /\ bucket' = Taken(acquire.limiter)
            /\ acquire' = [acquire EXCEPT !.pc = "acquired",
                                          !.tries = acquire.tries + 1]
       ELSE /\ bucket' = Aged(wait_time)
            /\ acquire' = [acquire EXCEPT
                              !.total_waited = acquire.total_waited + wait_time,
                              !.tries = acquire.tries + 1]
    /\ UNCHANGED <<slot, sent, retried, lookup, lookups, current_job>>
    /\ UNCHANGED <<procVars, utilVars, webVars>>

\* line 48: the attempt after the loop, whose exception nothing catches
FinalAttempt ==
    /\ acquire.pc = "polling"
    /\ ~LoopContinues(acquire.total_waited)
    /\ IF Free(acquire.limiter)
       THEN /\ bucket' = Taken(acquire.limiter)
            /\ acquire' = [acquire EXCEPT !.pc = "acquired",
                                          !.tries = acquire.tries + 1]
       ELSE /\ acquire' = [acquire EXCEPT !.pc = "raised",
                                          !.tries = acquire.tries + 1]
            /\ UNCHANGED bucket
    /\ UNCHANGED <<slot, sent, retried, lookup, lookups, current_job>>
    /\ UNCHANGED <<procVars, utilVars, webVars>>

\* query_overpass, line 311: overpass_limiter.try_acquire("overpass")
CallTryAcquire ==
    /\ acquire.pc \in {"idle", "acquired", "raised"}
    /\ IF Free("overpass")
       THEN /\ bucket' = Taken("overpass")
            /\ acquire' = [pc |-> "acquired", caller |-> "query_overpass",
                           limiter |-> "overpass", total_waited |-> 0,
                           tries |-> 1]
       ELSE /\ acquire' = [pc |-> "raised", caller |-> "query_overpass",
                           limiter |-> "overpass", total_waited |-> 0,
                           tries |-> 1]
            /\ UNCHANGED bucket
    /\ UNCHANGED <<slot, sent, retried, lookup, lookups, current_job>>
    /\ UNCHANGED <<procVars, utilVars, webVars>>

\* Half a second passes: in a request, in the code between two calls.
Elapse ==
    /\ bucket' = Aged(1)
    /\ bucket' # bucket
    /\ UNCHANGED <<acquire, slot, sent, retried, lookup, lookups, current_job>>
    /\ UNCHANGED <<procVars, utilVars, webVars>>

\* Another request thread of the application takes the slot of a limiter.
OtherThreadAcquires ==
    /\ \E limiter \in Limiters :
         /\ Free(limiter)
         /\ bucket' = Taken(limiter)
    /\ UNCHANGED <<acquire, slot, sent, retried, lookup, lookups, current_job>>
    /\ UNCHANGED <<procVars, utilVars, webVars>>

InitAcquire == ProcessorIdle /\ UtilsIdle /\ NetIdle /\ WebIdle

NextAcquire ==
    \/ CallAcquireWithWait
    \/ Poll
    \/ FinalAttempt
    \/ CallTryAcquire
    \/ Elapse
    \/ OtherThreadAcquires

\* The thread that called acquire_with_wait keeps running: time.sleep
\* returns, and the next statement is executed.
SpecAcquire ==
    /\ InitAcquire
    /\ [][NextAcquire]_vars
    /\ WF_vars(Poll)
    /\ WF_vars(FinalAttempt)

\* ---------------------------------------------------------- routes/jobs.py

\* The number of district entries in the request of /start.
MaxJobDistricts == 3

\* str.strip(): without the whitespace at both ends
StripWhite(text) ==
    LET solid == {i \in 1..Len(text) : text[i] \notin {" ", "\n"}}
    IN  IF solid = {}
        THEN <<>>
        ELSE SubSeq(text, CHOOSE i \in solid : \A j \in solid : i <= j,
                          CHOOSE i \in solid : \A j \in solid : i >= j)

\* text.split('\n') after text.replace(',', '\n'); piece is the part of the
\* entry read so far.
RECURSIVE SplitEntries(_, _)
SplitEntries(text, piece) ==
    IF text = <<>>
    THEN <<piece>>
    ELSE IF Head(text) \in {",", "\n"}
         THEN <<piece>> \o SplitEntries(Tail(text), <<>>)
         ELSE SplitEntries(Tail(text), Append(piece, Head(text)))

\* [d.strip().upper() for d in entries if d.strip()]
RECURSIVE Cleaned(_)
Cleaned(entries) ==
    IF entries = <<>>
    THEN <<>>
    ELSE IF StripWhite(Head(entries)) = <<>>
         THEN Cleaned(Tail(entries))
         ELSE <<Upper(StripWhite(Head(entries)))>> \o Cleaned(Tail(entries))

\* start_job, lines 150-163: the districts of the request, given as a list
\* or as one text; <<>> stands for the requests answered with 400.
ParseDistricts(input) ==
    IF input.type = "list"
    THEN Cleaned(input.value)
    ELSE IF StripWhite(input.value) = <<>>
         THEN <<>>
         ELSE Cleaned(SplitEntries(StripWhite(input.value), <<>>))

\* The 'districts' of the requests to /start.
JobEntries == {se1, <<" ", "E", "1">>, <<" ">>}
JobInputs ==
    {[type |-> "list", value |-> entries] :
        entries \in SeqsUpTo(JobEntries, MaxJobDistricts)}
    \cup {[type |-> "text", value |-> <<"s", "e", "1", ",", " ", "e", "1", "\n">>],
          [type |-> "text", value |-> <<" ", "\n">>]}

\* create_job, lines 35-49: the fields that /step reads and writes
create_job(districts) ==
    [districts |-> districts, current_index |-> 0, results |-> <<>>,
     completed |-> FALSE]

\* What processor.process() returns for the district: a failure result or a
\* success result (it raises nothing); the processor is an object of the
\* handler, gone when the handler returns.
ProcessResults(d) ==
    {_build_error_result(
         SelfOf(d, <<>>, <<>>, <<>>, EmptyDict,
                Message("Could not geocode district: ", d))),
     _build_result(SelfOf(d, <<>>, <<>>, <<>>, EmptyDict, NoError), <<>>)}

\* lines 247-249: the job is completed with its last district (the mutant:
\* with a district that failed, too).
StepCompletesOnFailure(index, districts, r) ==
    index >= Len(districts) \/ ~r.success

StepCompletes(index, districts, r) == index >= Len(districts)

\* lines 212-216: the answers with status 400
Refused(text) == [NoResponse EXCEPT !.status = 400, !.error = text]

\* A check that lets the requests on a completed job through.
RefusalWithoutJobOnly(job) ==
    IF job = NoJob THEN Refused("No active job") ELSE NoResponse

\* What /step answers before it looks at the districts: the refusal, or
\* NoResponse when the request goes on.
Refusal(job) ==
    IF job = NoJob THEN Refused("No active job")
    ELSE IF job.completed THEN Refused("Job already completed")
    ELSE NoResponse

\* lines 221-227: the answer when the index is past the list
PastTheList(districts, idx) ==
    [NoResponse EXCEPT !.status = 200, !.completed = TRUE, !.processed = idx]

\* A step that appends the result and leaves the index where it is.
SteppedInPlace(job, r) == [job EXCEPT !.results = Append(@, r)]

\* lines 243-249: the result is appended, the index moved on, the job
\* completed with its last district
Stepped(job, r) ==
    [job EXCEPT
        !.results = Append(@, r),
        !.current_index = @ + 1,
        !.completed =
            @ \/ StepCompletes(job.current_index + 1, job.districts, r)]

\* lines 251-256: the answer of a step that processed a district
StepResponse(job, r) ==
    [NoResponse EXCEPT
        !.status = 200,
        !.completed = job.current_index >= Len(job.districts),
        !.processed = job.current_index,
        !.result = r]

\* The handler has answered.
Answered(response) == [pc |-> "idle", idx |-> 0, response |-> response]

\* POST /start, for the requests that are not answered with 400
StartJob ==
    /\ \E input \in JobInputs :
         /\ ParseDistricts(input) # <<>>
         /\ current_job' = create_job(ParseDistricts(input))
    /\ UNCHANGED <<bucket, acquire, slot, sent, retried, lookup, lookups>>
    /\ UNCHANGED <<procVars, utilVars, webVars>>

\* POST /step, for the requests that are not answered with 400, served one
\* at a time
ProcessStep ==
    /\ Refusal(current_job) = NoResponse
    /\ LET idx == current_job.current_index
           districts == current_job.districts
       IN  IF idx >= Len(districts)
           THEN /\ current_job' = [current_job EXCEPT !.completed = TRUE]
                /\ handlers' =
                      [handlers EXCEPT
                          ![1] = Answered(PastTheList(districts, idx))]
           ELSE \E r \in ProcessResults(districts[idx + 1]) :
                   /\ current_job' = Stepped(current_job, r)
                   /\ handlers' =
                         [handlers EXCEPT
                             ![1] = Answered(StepResponse(current_job', r))]
    /\ UNCHANGED <<bucket, acquire, slot, sent, retried, lookup, lookups>>
    /\ UNCHANGED <<procVars, utilVars>>

\* POST /step, for the requests that are answered with 400
RefuseStep ==
    /\ Refusal(current_job) # NoResponse
    /\ handlers' = [handlers EXCEPT ![1] = Answered(Refusal(current_job))]
    /\ UNCHANGED <<procVars, utilVars, netVars>>

\* POST /reset
ResetJob ==
    /\ current_job # NoJob
    /\ current_job' = NoJob
    /\ UNCHANGED <<bucket, acquire, slot, sent, retried, lookup, lookups>>
    /\ UNCHANGED <<procVars, utilVars, webVars>>

InitJob == ProcessorIdle /\ UtilsIdle /\ NetIdle /\ WebIdle

NextJob ==
    \/ StartJob
    \/ ProcessStep
    \/ RefuseStep
    \/ ResetJob

SpecJob == InitJob /\ [][NextJob]_vars

\* Requests to /step that overlap: app.run serves every request in a thread
\* of its own, and process_step takes no lock. Thread t runs the handler up
\* to the call of processor.process() (lines 210-240) ...
EnterStep(t) ==
    /\ handlers[t].pc = "idle"
    /\ IF Refusal(current_job) # NoResponse
       THEN /\ handlers' = [handlers EXCEPT ![t] = Answered(Refusal(current_job))]
            /\ UNCHANGED current_job
       ELSE LET idx == current_job.current_index
                districts == current_job.districts
            IN  IF idx >= Len(districts)
                THEN /\ current_job' = [current_job EXCEPT !.completed = TRUE]
                     /\ handlers' =
                           [handlers EXCEPT
                               ![t] = Answered(PastTheList(districts, idx))]
                ELSE /\ handlers' =
                           [handlers EXCEPT
                               ![t] = [pc |-> "processing", idx |-> idx,
                                       response |-> NoResponse]]
                     /\ UNCHANGED current_job
    /\ UNCHANGED <<bucket, acquire, slot, sent, retried, lookup, lookups>>
    /\ UNCHANGED <<procVars, utilVars>>

\* ... and, when process() has returned, the rest of it (lines 242-256),
\* with the district it read at line 230.
FinishStep(t) ==
    /\ handlers[t].pc = "processing"
    /\ \E r \in ProcessResults(current_job.districts[handlers[t].idx + 1]) :
          /\ current_job' = Stepped(current_job, r)
          /\ handlers' =
                [handlers EXCEPT ![t] = Answered(StepResponse(current_job', r))]
    /\ UNCHANGED <<bucket, acquire, slot, sent, retried, lookup, lookups>>
    /\ UNCHANGED <<procVars, utilVars>>

\* The job the overlapping requests work on is started once.
StartOnce == current_job = NoJob /\ StartJob

NextSteps ==
    \/ StartOnce
    \/ \E t \in Handlers : EnterStep(t)
    \/ \E t \in Handlers : FinishStep(t)

SpecSteps == InitJob /\ [][NextSteps]_vars

\* ------------------------------------------------ utils.build_retail_query

\* Longest list of shop types, amenities or property selectors.
MaxEntries == 2

Newline == "\n"

\* The character class [a-z0-9_] of both patterns.
TokenChars ==
    {"a", "b", "c", "d", "e", "f", "g", "h", "i", "j", "k", "l", "m", "n",
     "o", "p", "q", "r", "s", "t", "u", "v", "w", "x", "y", "z", "0", "1",
     "2", "3", "4", "5", "6", "7", "8", "9", "_"}

\* [a-z0-9_]+ consumes the whole of s.
TokenRun(s) == Len(s) >= 1 /\ \A i \in 1..Len(s) : s[i] \in TokenChars

\* What $ accepts of the rest of the string (no re.MULTILINE): the end of
\* the string, or the position just before a newline that ends the string.
AtDollar(rest) == rest = <<>> \/ rest = <<Newline>>

\* _token_re.match(s) is not None: ^[a-z0-9_]+$
_token_re(s) ==
    \E n \in 1..Len(s) :
        /\ TokenRun(SubSeq(s, 1, n))
        /\ AtDollar(SubSeq(s, n + 1, Len(s)))

\* _selector_re.match(s) is not None: ^[a-z0-9_]+=(\*|[a-z0-9_]+)$
_selector_re(s) ==
    \E k \in 1..Len(s), n \in 1..Len(s) :
        /\ k + 1 < n + 1
        /\ TokenRun(SubSeq(s, 1, k))
        /\ s[k + 1] = "="
        /\ \/ SubSeq(s, k + 2, n) = <<"*">>
           \/ TokenRun(SubSeq(s, k + 2, n))
        /\ AtDollar(SubSeq(s, n + 1, Len(s)))

\* re.escape(s): the characters of the class stand for themselves, any
\* other character of the model's alphabet gets a backslash.
RECURSIVE re_escape(_)
re_escape(s) ==
    IF s = <<>> THEN <<>>
    ELSE (IF Head(s) \in TokenChars THEN <<Head(s)>> ELSE <<"\\", Head(s)>>)
         \o re_escape(Tail(s))

\* sel.split("=", 1) of a selector that holds an "=".
FirstEquals(sel) ==
    CHOOSE i \in 1..Len(sel) :
        sel[i] = "=" /\ \A j \in 1..(i - 1) : sel[j] # "="

SplitKey(sel) == SubSeq(sel, 1, FirstEquals(sel) - 1)
SplitValue(sel) == SubSeq(sel, FirstEquals(sel) + 1, Len(sel))

\* One clause of the union, for one geometry. kind says what stands after
\* the key: nothing ("exists"), ~"^(...)$" with the alternatives in value
\* ("regex"), or ="..." with the value ("equals"). The (around:...) part is
\* the same in every clause.
Clause(geometry, key, kind, value) ==
    [geometry |-> geometry, key |-> key, kind |-> kind, value |-> value]

\* The node / way / relation lines the code adds together.
Triple(key, kind, value) ==
    <<Clause("node", key, kind, value),
      Clause("way", key, kind, value),
      Clause("relation", key, kind, value)>>

\* [f(s) for s in entries]
RECURSIVE Escaped(_)
Escaped(entries) ==
    IF entries = <<>> THEN <<>>
    ELSE <<re_escape(Head(entries))>> \o Escaped(Tail(entries))

\* Lines 386-399: the loop over the property selectors.
RECURSIVE SelectorParts(_)
SelectorParts(selectors) ==
    IF selectors = <<>> THEN <<>>
    ELSE LET k == SplitKey(Head(selectors))
             v == SplitValue(Head(selectors))
         IN  (IF v = <<"*">> THEN Triple(k, "exists", <<>>)
                             ELSE Triple(k, "equals", v))
             \o SelectorParts(Tail(selectors))

\* A group that is never added.
NoGroup(include_all_shops, entries) == FALSE

\* Line 368: elif shop_types
ShopTypesGroup(include_all_shops, entries) ==
    ~include_all_shops /\ entries # <<>>

\* A default that is never added.
NoDefault(parts) == FALSE

\* Line 402: if not parts
NeedsDefault(parts) == parts = <<>>

\* build_retail_query: the list parts that the returned text joins between
\* "[out:json][timeout:180];(" and ");out tags center;".
build_retail_query(include_all_shops, shop_types_in, amenities_in, selectors_in) ==
    LET shop_types == SelectSeq(shop_types_in, _token_re)
        amenities == SelectSeq(amenities_in, _token_re)
        property_selectors == SelectSeq(selectors_in, _selector_re)
        shops ==
            IF include_all_shops THEN Triple(<<"s", "h", "o", "p">>,
                                             "exists", <<>>)
            ELSE IF ShopTypesGroup(include_all_shops, shop_types)
                 THEN Triple(<<"s", "h", "o", "p">>, "regex",
                             Escaped(shop_types))
                 ELSE <<>>
        places ==
            IF amenities # <<>>
            THEN Triple(<<"a", "m", "e", "n", "i", "t", "y">>, "regex",
                        Escaped(amenities))
            ELSE <<>>
        parts == shops \o places \o SelectorParts(property_selectors)
    IN  IF NeedsDefault(parts)
        THEN Triple(<<"s", "h", "o", "p">>, "exists", <<>>)
        ELSE parts

\* The entries the lists are made of: a plain token, an upper-case word, a
\* token followed by a newline; a wildcard selector, a key=value selector,
\* a key alone, a wildcard selector followed by a newline.
ShopEntries == {<<"c">>, <<"b", "1">>, <<"C">>, <<"c", Newline>>}
AmenityEntries == {<<"p">>, <<"P", "!">>, <<"p", Newline>>}
SelectorEntries ==
    {<<"o", "=", "*">>, <<"o", "=", "y">>, <<"o">>, <<"o", "=", "*", Newline>>}

\* The frame of build_retail_query, called with these arguments.
QueryCall(all, shops, places, selectors) ==
    [fn |-> "build_retail_query", pc |-> "called", attempt |-> 0,
     value |-> <<>>,
     args |-> [include_all_shops |-> all, shop_types |-> shops,
               amenities |-> places, property_selectors |-> selectors]]

\* The query runs: build_retail_query called once, on any lists of up to
\* MaxEntries entries, with and without the all-shops flag.
InitQuery ==
    /\ ProcessorIdle
    /\ UtilsIdle
    /\ bucket = [limiter \in Limiters |-> Window(limiter)]
    /\ acquire = NotAcquiring
    /\ slot = "none"
    /\ sent = <<>>
    /\ \E all \in BOOLEAN,
          shops \in SeqsUpTo(ShopEntries, MaxEntries),
          places \in SeqsUpTo(AmenityEntries, MaxEntries),
          selectors \in SeqsUpTo(SelectorEntries, MaxEntries) :
          retried = QueryCall(all, shops, places, selectors)
    /\ lookup = NoLookup
    /\ lookups = <<>>
    /\ current_job = NoJob
    /\ WebIdle

\* build_retail_query runs and returns.
BuildRetailQuery ==
    /\ retried.fn = "build_retail_query"
    /\ retried.pc = "called"
    /\ retried' =
          [retried EXCEPT
              !.pc = "returned",
              !.value = build_retail_query(retried.args.include_all_shops,
                                           retried.args.shop_types,
                                           retried.args.amenities,
                                           retried.args.property_selectors)]
    /\ UNCHANGED <<bucket, acquire, slot, sent, lookup, lookups, current_job>>
    /\ UNCHANGED <<procVars, utilVars, webVars>>

NextQuery == BuildRetailQuery

SpecQuery == InitQuery /\ [][NextQuery]_vars

\* ------------------------------------------------------------------ claims

\* process() has returned r, a failure result carrying message.
IsFailureResult(r, message) ==
    /\ r.district = district
    /\ r.success = FALSE
    /\ r.error = message
    /\ r.total_pois = 0
    /\ r.total_streets_found = 0
    /\ <<r.street_1, r.street_2, r.street_3>> = <<"", "", "">>
    /\ <<r.count_1, r.count_2, r.count_3>> = <<0, 0, 0>>

\* C1: an exception raised by any step of process() (geocoding, POI query,
\* POI extraction, street query, street extraction, attribution, ranking,
\* result building) never leaves process(): process() returns a failure
\* result whose error is the text of the exception, with all counts zero and
\* three empty street slots.
C1_ProcessNeverRaises ==
    /\ pc # "raised"
    /\ exc # <<>> =>
          /\ pc = "failed"
          /\ error = exc[2]
          /\ IsFailureResult(result, exc[2])

\* C1's case: the last statement of the try block, the building of the
\* result of a district with attributed POIs, raised and process() returned.
C1_Witness ==
    /\ exc # <<>>
    /\ exc[1] = "result_building"
    /\ street_poi_counts # <<>>
    /\ pc = "failed"

\* C2: when geocode_district returns None, process() ends failed: the result
\* has success = false, the error "Could not geocode district: <id>", zero
\* POI and street counts, three empty slots, and neither the POI query nor
\* the street query was issued.
C2_GeocodeAbsentFails ==
    coords = NoCoords =>
        /\ pc = "failed"
        /\ exc = <<>>
        /\ IsFailureResult(result,
                           Message("Could not geocode district: ", district))
        /\ calls = <<"geocode_district">>

\* C2's case: geocode_district returned None for the district "se1".
C2_Witness ==
    /\ coords = NoCoords
    /\ district = se1
    /\ pc = "failed"

\* POI extraction ran to its end on the response and retained nothing.
ExtractionYieldedNoPois ==
    /\ "elements" \in DOMAIN poi_data
    /\ exc = <<>>
    /\ pois = <<>>

\* C3: when POI extraction yields no POI, process() returns a success result
\* with total_pois = 0, total_streets_found = 0, three empty slots with zero
\* counts and an empty full list, and no street query is made.
C3_NoPoisShortCircuit ==
    ExtractionYieldedNoPois =>
        /\ pc = "done_empty"
        /\ result.district = district
        /\ result.success = TRUE
        /\ result.error = NoError
        /\ result.total_pois = 0
        /\ result.total_streets_found = 0
        /\ <<result.street_1, result.street_2, result.street_3>> = <<"", "", "">>
        /\ <<result.count_1, result.count_2, result.count_3>> = <<0, 0, 0>>
        /\ result.all_streets = <<>>
        /\ calls = <<"geocode_district", "poi_query">>

\* C3's case: the response held elements and extraction dropped them all.
C3_Witness ==
    /\ ExtractionYieldedNoPois
    /\ Len(poi_data.elements) = 2
    /\ pc = "done_empty"

\* The transitions of process() that the state machine of the pipeline
\* allows; failed is entered from geocoding (district not found) and from
\* any step that raised.
StepEdges ==
    {<<"initialized", "geocoding">>,
     <<"geocoding", "failed">>,
     <<"geocoding", "fetching_pois">>,
     <<"fetching_pois", "done_empty">>,
     <<"fetching_pois", "fetching_streets">>,
     <<"fetching_pois", "failed">>,
     <<"fetching_streets", "attributing">>,
     <<"fetching_streets", "failed">>,
     <<"attributing", "ranking">>,
     <<"attributing", "failed">>,
     <<"ranking", "done">>,
     <<"ranking", "failed">>}

IsPrefix(s, t) == Len(s) <= Len(t) /\ SubSeq(t, 1, Len(s)) = s

InCalls(call) == \E i \in 1..Len(calls) : calls[i] = call

\* The calls made so far are in order, none twice, and each was made only
\* after what it needs: the POI query after geocoding returned a coordinate,
\* the street query after the POI query returned and a POI was retained,
\* attribution and ranking after the street query returned.
CallsInOrder ==
    /\ IsPrefix(calls, <<"geocode_district", "poi_query", "street_query">>)
    /\ InCalls("poi_query") =>
          coords \in GeoCoords /\ center_coords = coords
    /\ InCalls("street_query") =>
          "elements" \in DOMAIN poi_data /\ pois # <<>>
    /\ pc \in {"attributing", "ranking", "done"} =>
          /\ "elements" \in DOMAIN highway_data
          /\ calls = <<"geocode_district", "poi_query", "street_query">>
    /\ pc = "done_empty" => calls = <<"geocode_district", "poi_query">>
    /\ pc \in {"failed", "done_empty", "done"} <=> "success" \in DOMAIN result

\* C4: every run of process() goes initialized -> geocoding -> (failed |
\* fetching-pois) -> (done-empty | fetching-streets) -> attributing ->
\* ranking -> done, each query only after the step before it succeeded; no
\* step is skipped or repeated (every step of the run moves along one of
\* these edges), and a run that is in failed, done-empty or done stays there.
C4_StepOrder ==
    /\ [][/\ <<pc, pc'>> \in StepEdges
          /\ pc \notin {"failed", "done_empty", "done"}]_vars
    /\ []CallsInOrder

\* C4's case: a full run, through every step to done.
C4_Witness ==
    /\ pc = "done"
    /\ calls = <<"geocode_district", "poi_query", "street_query">>
    /\ result.success = TRUE
    /\ result.total_streets_found = 2

\* The names that hold attributed POIs, and the POIs attributed to a name.
AttributedNames == DOMAIN street_to_pois

Attributed(name) == Get(street_to_pois, name, <<>>)

\* How often the POI with this id occurs in the list of the name.
Occurrences(name, id) ==
    Cardinality({k \in 1..Len(Attributed(name)) : Attributed(name)[k].id = id})

RECURSIVE SumOfCounts(_)
SumOfCounts(street_counts) ==
    IF street_counts = <<>>
    THEN 0
    ELSE Head(street_counts)[2] + SumOfCounts(Tail(street_counts))

\* The extracted POIs that are in the list of some name.
AttributedPois ==
    {i \in 1..Len(pois) :
        \E name \in AttributedNames : Occurrences(name, pois[i].id) > 0}

\* C5: after attribution every extracted POI is in the attributed-POI list
\* of at most one street name (and at most once there); the running count
\* of every name is the length of the name's list; so the counts sum to the
\* number of attributed POIs, which is at most total_pois.
C5_AttributionConsistent ==
    /\ \A i \in 1..Len(pois) :
          Cardinality({name \in AttributedNames :
                          Occurrences(name, pois[i].id) > 0}) <= 1
    /\ \A name \in AttributedNames :
          /\ CountOf(street_poi_counts, name) = Len(Attributed(name))
          /\ \A k \in 1..Len(Attributed(name)) :
                /\ \E i \in 1..Len(pois) : pois[i] = Attributed(name)[k]
                /\ Occurrences(name, Attributed(name)[k].id) = 1
    /\ {street_poi_counts[k][1] : k \in 1..Len(street_poi_counts)}
          = AttributedNames
    /\ \A k \in 1..Len(street_poi_counts) : street_poi_counts[k][2] > 0
    /\ SumOfCounts(street_poi_counts) = Cardinality(AttributedPois)
    /\ SumOfCounts(street_poi_counts) <= Len(pois)

\* C5's case: of two extracted POIs one went to a street and one to none.
C5_Witness ==
    /\ pc = "ranking"
    /\ Len(pois) = 2
    /\ SumOfCounts(street_poi_counts) = 1

\* Attribution has run (self.street_poi_counts is assigned at line 85).
AttributionDone ==
    \/ pc \in {"ranking", "done"}
    \/ exc # <<>> /\ exc[1] \in {"ranking", "result_building"}

\* The name whose list holds POI i, or None.
NameOfPoi(i) ==
    IF \E name \in AttributedNames : Occurrences(name, pois[i].id) > 0
    THEN CHOOSE name \in AttributedNames : Occurrences(name, pois[i].id) > 0
    ELSE None

\* The POI carries a street-address hint (an addr:street that is the empty
\* string is no street name).
HasHint(poi) == poi.street # None /\ poi.street # ""

FetchedNames == {streets[k].name : k \in 1..Len(streets)}

\* C6: a POI with a street-address hint is attributed to exactly that
\* literal name, whatever streets were fetched and however far they are.
C6_HintWins ==
    AttributionDone =>
        \A i \in 1..Len(pois) :
            HasHint(pois[i]) => NameOfPoi(i) = pois[i].street

\* C6's case: a hinted POI, and a fetched street of another name within
\* max_assign_m of it, while no fetched street has the hinted name.
C6_Witness ==
    /\ AttributionDone
    /\ \E i \in 1..Len(pois) :
          /\ HasHint(pois[i])
          /\ pois[i].street \notin FetchedNames
          /\ \E k \in 1..Len(streets) :
                haversine_distance(pois[i].lat, pois[i].lon,
                                   streets[k].lat, streets[k].lon) <= max_assign_m
          /\ NameOfPoi(i) = pois[i].street

\* The distance from POI i to fetched street k.
Distance(i, k) ==
    haversine_distance(pois[i].lat, pois[i].lon, streets[k].lat, streets[k].lon)

\* Street k is a fetched street of minimum distance to POI i.
IsNearest(i, k) == \A j \in 1..Len(streets) : Distance(i, k) <= Distance(i, j)

\* C7: a POI without hint is attributed to a fetched street of minimum
\* distance if and only if that minimum is at most max_assign_m; beyond it,
\* or when no street was fetched, it is attributed to no street.
C7_NearestWithinThreshold ==
    AttributionDone =>
        \A i \in 1..Len(pois) :
            ~HasHint(pois[i]) =>
                IF \E k \in 1..Len(streets) :
                       IsNearest(i, k) /\ Distance(i, k) <= max_assign_m
                THEN \E k \in 1..Len(streets) :
                        IsNearest(i, k) /\ NameOfPoi(i) = streets[k].name
                ELSE NameOfPoi(i) = None

\* C7's case: the nearest street is exactly max_assign_m away, and the POI
\* is attributed to it.
C7_Witness ==
    /\ AttributionDone
    /\ \E i \in 1..Len(pois) :
          /\ ~HasHint(pois[i])
          /\ \E k \in 1..Len(streets) :
                /\ IsNearest(i, k)
                /\ Distance(i, k) = max_assign_m
                /\ NameOfPoi(i) = streets[k].name

\* C8: among fetched streets at the same minimum distance from a POI
\* without hint, the first of the fetched list gets the POI.
C8_FirstOfTiesWins ==
    AttributionDone =>
        \A i \in 1..Len(pois) :
            (~HasHint(pois[i]) /\ NameOfPoi(i) # None) =>
                \E k \in 1..Len(streets) :
                    /\ IsNearest(i, k)
                    /\ \A j \in 1..(k - 1) : ~IsNearest(i, j)
                    /\ NameOfPoi(i) = streets[k].name

\* C8's case: two streets of different names at the same minimum distance.
C8_Witness ==
    /\ AttributionDone
    /\ \E i \in 1..Len(pois) :
          /\ ~HasHint(pois[i])
          /\ \E k, j \in 1..Len(streets) :
                /\ k < j
                /\ IsNearest(i, k)
                /\ IsNearest(i, j)
                /\ streets[k].name # streets[j].name
                /\ NameOfPoi(i) = streets[k].name

\* process() returned a success result.
Succeeded == pc \in {"done", "done_empty"}

\* The three (name, count) slots of the result.
Slots ==
    <<<<result.street_1, result.count_1>>,
      <<result.street_2, result.count_2>>,
      <<result.street_3, result.count_3>>>>

SlotNames == {Slots[k][1] : k \in 1..3} \ {""}

\* C9: a success result has exactly three (name, count) slots in descending
\* order of count, holding the names of the highest attributed counts, each
\* with its count; with fewer than three attributed names the slots left
\* are ("", 0); no name with a count above count_3 is missing.
C9_TopThree ==
    Succeeded =>
        /\ result.count_1 >= result.count_2
        /\ result.count_2 >= result.count_3
        /\ \A k \in 1..3 :
              IF Slots[k][1] = ""
              THEN Slots[k][2] = 0
              ELSE /\ Slots[k][1] \in AttributedNames
                   /\ Slots[k][2] = Len(Attributed(Slots[k][1]))
                   /\ Slots[k][2] > 0
                   /\ \A j \in 1..3 : j # k => Slots[j][1] # Slots[k][1]
        /\ Cardinality(SlotNames) = Min(3, Cardinality(AttributedNames))
        /\ \A name \in AttributedNames \ SlotNames :
              Len(Attributed(name)) <= result.count_3

\* C9's case: four names were attributed POIs, and the name attributed last
\* holds more than the others, so it is in the first slot and one of the
\* others is in none.
C9_Witness ==
    /\ pc = "done"
    /\ Len(street_poi_counts) = 4
    /\ street_poi_counts[4][2] = 2
    /\ result.street_1 = street_poi_counts[4][1]
    /\ result.count_2 = 1

\* The postcode-consistency check of a name, from the postcodes of its
\* attributed POIs: at least as many in the district as elsewhere.
PostcodesOf(name, in) ==
    {k \in 1..Len(Attributed(name)) :
        /\ Attributed(name)[k].postcode # <<>>
        /\ StartsWith(RemoveSpaces(Upper(Attributed(name)[k].postcode)),
                      district) = in}

PostcodeConsistent(name) ==
    Cardinality(PostcodesOf(name, TRUE)) >= Cardinality(PostcodesOf(name, FALSE))

\* C10: the full list of a success result holds exactly the fetched street
\* names with a nonzero attributed count that pass the postcode-consistency
\* check, each once, each with its count, in descending order of count.
C10_FullList ==
    Succeeded =>
        LET all == result.all_streets
        IN  /\ {all[k].name : k \in 1..Len(all)}
                 = {name \in FetchedNames :
                       /\ Len(Attributed(name)) > 0
                       /\ PostcodeConsistent(name)}
            /\ \A k, j \in 1..Len(all) : all[k].name = all[j].name => k = j
            /\ \A k \in 1..Len(all) :
                  all[k].poi_count = Len(Attributed(all[k].name))
            /\ \A k \in 1..(Len(all) - 1) :
                  all[k].poi_count >= all[k + 1].poi_count

\* C10's case: two geometries share a name, the name fetched later has the
\* higher count and comes first in the list, and a POI was attributed to a
\* name that was not fetched.
C10_Witness ==
    /\ pc = "done"
    /\ Len(streets) = 3
    /\ streets[1].name = streets[2].name
    /\ Len(result.all_streets) = 2
    /\ result.all_streets[1].name = streets[3].name
    /\ result.all_streets[1].poi_count > result.all_streets[2].poi_count
    /\ AttributedNames \ FetchedNames # {}

\* The attributed POIs of the street A that carry a postcode inside / outside
\* the processed district.
InDistrict == Cardinality(PostcodesOf("A", TRUE))

InOtherDistricts == Cardinality(PostcodesOf("A", FALSE))

PoisExtracted ==
    /\ "elements" \in DOMAIN poi_data
    /\ (exc = <<>> \/ exc[1] # "poi_extraction")

\* The raw element's coordinates are resolvable: point coordinates of its
\* own, or a centroid.
Resolvable(element) ==
    \/ {"lat", "lon"} \subseteq DOMAIN element
    \/ "center" \in DOMAIN element

\* The raw element carries no postcode tag, or its postcode, uppercased and
\* without spaces, starts with the target district code.
PostcodeMatches(element) ==
    \/ "addr:postcode" \notin DOMAIN element.tags
    \/ LET text == RemoveSpaces(Upper(element.tags["addr:postcode"]))
       IN  \E n \in 0..Len(text) : SubSeq(text, 1, n) = district

\* C12: POI extraction retains a raw element with resolvable coordinates if
\* and only if it has no postcode tag or its postcode, uppercased with the
\* spaces removed, starts with the target district code (for SE1: "SE1 7PB"
\* and "SE11 5PQ" are retained, "SW1A 1AA" is dropped); the retained POIs are
\* in the order of the raw response.
C12_PostcodeRetention ==
    PoisExtracted =>
        LET elements == poi_data.elements
        IN  /\ {pois[k].id : k \in 1..Len(pois)}
                  = {elements[i].id : i \in {j \in 1..Len(elements) :
                        Resolvable(elements[j]) /\ PostcodeMatches(elements[j])}}
            /\ \A k \in 1..Len(pois) :
                  pois[k].postcode = Get(elements[pois[k].id].tags,
                                         "addr:postcode", <<>>)
            /\ \A k \in 1..(Len(pois) - 1) : pois[k].id < pois[k + 1].id
            /\ district = SE1 =>
                  \A i \in 1..Len(elements) :
                      /\ Get(elements[i].tags, "addr:postcode", <<>>)
                            \in {PostcodeInDistrict, PostcodeSubDistrict}
                         => \E k \in 1..Len(pois) : pois[k].id = i
                      /\ Get(elements[i].tags, "addr:postcode", <<>>)
                            = PostcodeElsewhere
                         => \A k \in 1..Len(pois) : pois[k].id # i

\* C12's case: for SE1 a response of an SW1A 1AA element followed by an
\* SE11 5PQ element, of which the second alone is retained.
C12_Witness ==
    /\ PoisExtracted
    /\ district = SE1
    /\ Len(poi_data.elements) = 2
    /\ poi_data.elements[1].tags = TagsOf("A", PostcodeElsewhere)
    /\ poi_data.elements[2].tags = TagsOf(None, PostcodeSubDistrict)
    /\ Len(pois) = 1
    /\ pois[1].id = 2

\* The district identifier in upper case and without spaces.
Normalized(d) == RemoveSpaces(Upper(d))

\* The element's postcode, if it has one, starts with the district code.
PostcodeIn(element, code) ==
    \/ "addr:postcode" \notin DOMAIN element.tags
    \/ StartsWith(RemoveSpaces(Upper(element.tags["addr:postcode"])), code)

\* The postcode-consistency check of a name against a district code.
ConsistentWith(name, code) ==
    LET tagged(in) ==
            {k \in 1..Len(Attributed(name)) :
                /\ Attributed(name)[k].postcode # <<>>
                /\ StartsWith(RemoveSpaces(Upper(Attributed(name)[k].postcode)),
                              code) = in}
    IN  Cardinality(tagged(TRUE)) >= Cardinality(tagged(FALSE))

\* C13: the district identifier is compared in its normalized form (upper
\* case, no spaces): for any district d given to the processor, extraction
\* retains the POIs that it retains for the normalized form of d (processing
\* "se1" retains a POI of postcode "SE1 7PB" as processing "SE1" does), and
\* the postcode-consistency check of the full list decides as for the
\* normalized form.
C13_DistrictNormalized ==
    /\ PoisExtracted =>
          {pois[k].id : k \in 1..Len(pois)}
            = {i \in 1..Len(poi_data.elements) :
                  /\ Resolvable(poi_data.elements[i])
                  /\ PostcodeIn(poi_data.elements[i], Normalized(district))}
    /\ pc = "done" =>
          {result.all_streets[k].name : k \in 1..Len(result.all_streets)}
            = {name \in FetchedNames :
                  /\ Len(Attributed(name)) > 0
                  /\ ConsistentWith(name, Normalized(district))}

\* C14: POI extraction silently drops every raw element that has neither
\* point coordinates nor a centroid, a point-kind element without latitude
\* and longitude included: such an element never makes extraction or
\* process() fail, and the other elements of the response are still
\* extracted.
C14_CoordlessDropped ==
    "elements" \in DOMAIN poi_data =>
        /\ (exc = <<>> \/ exc[1] # "poi_extraction")
        /\ (\E i \in 1..Len(poi_data.elements) :
                ~Resolvable(poi_data.elements[i]))
            => \A i \in 1..Len(poi_data.elements) :
                  (Resolvable(poi_data.elements[i])
                     /\ PostcodeMatches(poi_data.elements[i]))
                  => \E k \in 1..Len(pois) : pois[k].id = i

\* The raw element has a name tag that is not the empty string.
Named(element) == "name" \in DOMAIN element.tags /\ element.tags["name"] # ""

\* C15: street extraction retains a raw element if and only if it has a
\* non-empty name tag and a centroid; the others are dropped without error;
\* every retained street has a name and a coordinate, and the retained
\* streets are in the order of the raw response.
C15_StreetRetention ==
    "elements" \in DOMAIN highway_data =>
        LET elements == highway_data.elements
        IN  /\ exc = <<>> \/ exc[1] \notin {"street_query", "street_extraction"}
            /\ {streets[k].id : k \in 1..Len(streets)}
                  = {i \in 1..Len(elements) :
                        Named(elements[i]) /\ "center" \in DOMAIN elements[i]}
            /\ \A k \in 1..(Len(streets) - 1) : streets[k].id < streets[k + 1].id
            /\ \A k \in 1..Len(streets) :
                  /\ streets[k].name = elements[streets[k].id].tags["name"]
                  /\ streets[k].name \notin {"", None}
                  /\ streets[k].lat = elements[streets[k].id].center.lat
                  /\ streets[k].lon = elements[streets[k].id].center.lon

\* C15's case: a way with an empty name followed by a named way with a
\* centroid, of which the second alone is retained.
C15_Witness ==
    /\ "elements" \in DOMAIN highway_data
    /\ Len(highway_data.elements) = 2
    /\ highway_data.elements[1].tags = [name |-> ""]
    /\ Len(streets) = 1
    /\ streets[1].id = 2
    /\ pc = "done"

\* The key under which the cache holds the district of the call.
KeyOfCall == Strip(Upper(geo_district))

LastRequest ==
    IF requests_made = <<>> THEN <<>> ELSE requests_made[Len(requests_made)]

\* C16: geocode_district consults the cache, the primary provider and the
\* secondary provider in this order: on a cache hit it returns the cached
\* coordinate without any external request; the primary provider is
\* requested only on a cache miss; the secondary provider only after the
\* primary failed or gave no match; and a coordinate returned from a
\* provider has been written to the cache under the district before the
\* return.
C16_SourceOrder ==
    /\ cached # NoRow =>
          /\ geo_pc = "returned"
          /\ geo_result = <<cached.lat, cached.lon>>
          /\ requests_made = <<>>
          /\ district_cache[KeyOfCall] = cached
    /\ geo_pc \in {"primary", "limiter", "secondary"} =>
          KeyOfCall \notin DOMAIN district_cache
    /\ requests_made # <<>> => cached = NoRow
    /\ \A i \in 1..Len(requests_made) :
          /\ requests_made[i][1] = "primary" =>
                i = 1 \/ requests_made[i - 1] = <<"secondary", "error">>
          /\ requests_made[i][1] = "secondary" =>
                i > 1 /\ requests_made[i - 1] = <<"primary", "failed">>
          /\ requests_made[i] \in {<<"primary", "matched">>,
                                   <<"secondary", "results">>}
                => i = Len(requests_made) /\ geo_pc = "returned"
    /\ geo_pc = "secondary" => LastRequest = <<"primary", "failed">>
    /\ (geo_pc = "returned" /\ requests_made # <<>> /\ geo_result # NoCoords) =>
          /\ KeyOfCall \in DOMAIN district_cache
          /\ district_cache[KeyOfCall]
                = [lat |-> geo_result[1], lon |-> geo_result[2]]

\* C16's case: a second call, for a district the cache holds under another
\* spelling, is answered from the cache after the first call was answered by
\* the secondary provider on its second attempt.
C16_Witness ==
    /\ geo_call = "second"
    /\ geo_pc = "returned"
    /\ cached # NoRow
    /\ geo_district # first_call.district
    /\ first_call.requests = 4

\* The candidate's postcode starts with the district code followed by a
\* space (letter case aside).
HasDistrictPostcode(candidate) ==
    /\ "postcode" \in DOMAIN candidate.address
    /\ LET postcode == Upper(candidate.address.postcode)
           prefix == Upper(geo_district) \o <<" ">>
       IN  /\ Len(prefix) <= Len(postcode)
           /\ \A i \in 1..Len(prefix) : postcode[i] = prefix[i]

ExactIndices == {i \in 1..Len(results) : HasDistrictPostcode(results[i])}

RECURSIVE LatSum(_)
LatSum(indices) ==
    IF indices = {}
    THEN 0
    ELSE LET i == CHOOSE i \in indices : TRUE
         IN  results[i].lat + LatSum(indices \ {i})

RECURSIVE LonSum(_)
LonSum(indices) ==
    IF indices = {}
    THEN 0
    ELSE LET i == CHOOSE i \in indices : TRUE
         IN  results[i].lon + LonSum(indices \ {i})

\* The number (a fraction) is total / count.
IsQuotient(number, total, count) ==
    number[2] > 0 /\ number[1] * count = number[2] * total

\* geocode_district returned what it made of a non-empty candidate list.
AnsweredBySecondary ==
    /\ geo_pc = "returned"
    /\ LastRequest = <<"secondary", "results">>
    /\ results # <<>>

\* C17: when geocode_district falls back to the secondary provider and gets
\* candidates: if some have a postcode starting with "<district> ", the
\* result is the arithmetic mean of the latitudes and of the longitudes of
\* exactly those (exact matches at (51.0, -0.1) and (51.2, -0.3) give
\* (51.1, -0.2)); otherwise it is the first candidate's coordinate; either
\* way the result is cached and returned.
C17_SecondaryCentroid ==
    AnsweredBySecondary =>
        /\ IF ExactIndices # {}
           THEN /\ IsQuotient(geo_result[1], LatSum(ExactIndices),
                              Cardinality(ExactIndices))
                /\ IsQuotient(geo_result[2], LonSum(ExactIndices),
                              Cardinality(ExactIndices))
           ELSE /\ IsQuotient(geo_result[1], results[1].lat, 1)
                /\ IsQuotient(geo_result[2], results[1].lon, 1)
        /\ (/\ Cardinality(ExactIndices) = 2
            /\ {<<results[i].lat, results[i].lon>> : i \in ExactIndices}
                  = {<<510, -1>>, <<512, -3>>})
           => geo_result = <<<<511, 1>>, <<-2, 1>>>>
        /\ KeyOfCall \in DOMAIN district_cache
        /\ district_cache[KeyOfCall]
              = [lat |-> geo_result[1], lon |-> geo_result[2]]

\* C17's case: the two exact matches at (51.0, -0.1) and (51.2, -0.3).
C17_Witness ==
    /\ AnsweredBySecondary
    /\ Len(results) = 2
    /\ {<<results[i].lat, results[i].lon>> : i \in ExactIndices}
          = {<<510, -1>>, <<512, -3>>}
    /\ geo_result = <<<<511, 1>>, <<-2, 1>>>>

\* The secondary provider answered the request of the call with no candidate.
SecondaryFoundNothing ==
    /\ LastRequest = <<"secondary", "results">>
    /\ results = <<>>

\* C18: when the primary provider fails and the secondary provider returns
\* no candidate, geocode_district returns None without raising; the empty
\* answer is not retried (no further attempt, no further request), and no
\* cache entry is written for the district.
C18_NotFoundNotRetried ==
    SecondaryFoundNothing =>
        /\ geo_pc = "returned"
        /\ geo_result = NoCoords
        /\ requests_made[Len(requests_made) - 1] = <<"primary", "failed">>
        /\ Len(requests_made) = 2 * attempt
        /\ KeyOfCall \notin DOMAIN district_cache

\* C18's case: the first attempt ends with an empty answer; another
\* district is in the cache already.
C18_Witness ==
    /\ SecondaryFoundNothing
    /\ geo_pc = "returned"
    /\ attempt = 1
    /\ geo_call = "second"
    /\ district_cache # EmptyDict

\* This is the second of two calls for the same district id (letter case and
\* surrounding spaces aside), the first of which returned a coordinate.
SameDistrictTwice ==
    /\ geo_call = "second"
    /\ first_call.returned
    /\ first_call.result # NoCoords
    /\ Strip(Upper(first_call.district)) = Strip(Upper(geo_district))

\* C19 as stated: two calls of geocode_district for the same district id
\* return the identical coordinate and trigger one external call in total,
\* whichever provider answered the first call.
C19_OneExternalCall ==
    (SameDistrictTwice /\ geo_pc = "returned") =>
        /\ geo_result = first_call.result
        /\ first_call.requests + Len(requests_made) = 1

\* C19, amended: the second of two calls of geocode_district for the same
\* district id returns the coordinate the first call returned and makes no
\* external request, being answered from the cache; every external request
\* of the two calls is one of the first call (which makes at least one).
C19_SecondCallFromCache ==
    SameDistrictTwice =>
        /\ requests_made = <<>>
        /\ geo_pc \in {"cache_check", "returned"}
        /\ geo_pc = "returned" =>
              /\ cached # NoRow
              /\ geo_result = first_call.result
        /\ first_call.requests >= 1

\* C19's case: the first call was answered by the secondary provider after
\* the primary failed, and the second call spells the district differently.
C19_Witness ==
    /\ SameDistrictTwice
    /\ geo_pc = "returned"
    /\ geo_district # first_call.district
    /\ first_call.requests = 2
    /\ geo_result = first_call.result

\* The set_district calls made so far for the same uppercase-trimmed id, and
\* the set_street calls made so far for the same uppercase-trimmed postcode
\* and lowercase-trimmed street.
DistrictWrites(id) ==
    {i \in 1..Len(cache_ops) :
        /\ cache_ops[i].op = "set_district"
        /\ Strip(Upper(cache_ops[i].district)) = Strip(Upper(id))}

StreetWrites(postcode, street) ==
    {i \in 1..Len(cache_ops) :
        /\ cache_ops[i].op = "set_street"
        /\ Strip(Upper(cache_ops[i].postcode)) = Strip(Upper(postcode))
        /\ Strip(Lower(cache_ops[i].street)) = Strip(Lower(street))}

Latest(indices) == CHOOSE i \in indices : \A j \in indices : j <= i

\* C20: the geocode cache is an upsert store keyed by the normalized key:
\* get_district(id) returns the coordinate of the most recent set_district
\* with the same uppercase-trimmed id, and None if there was none;
\* get_street(postcode, street) returns the values of the most recent
\* set_street with the same uppercase-trimmed postcode and lowercase-trimmed
\* street, and None if there was none; no entry is ever removed, and
\* district entries and street entries do not affect each other.
C20_CacheUpsert ==
    /\ \A i \in 1..Len(cache_ops) :
          IF cache_ops[i].op = "set_district"
          THEN Strip(Upper(cache_ops[i].district)) \in DOMAIN district_cache
          ELSE _street_key(cache_ops[i].postcode, cache_ops[i].street)
                  \in DOMAIN street_cache
    /\ (got # EmptyDict /\ got.op = "get_district") =>
          IF DistrictWrites(got.district) = {}
          THEN got.row = NoRow
          ELSE LET last == cache_ops[Latest(DistrictWrites(got.district))]
               IN  got.row = [lat |-> last.lat, lon |-> last.lon]
    /\ (got # EmptyDict /\ got.op = "get_street") =>
          IF StreetWrites(got.postcode, got.street) = {}
          THEN got.row = NoRow
          ELSE LET last ==
                      cache_ops[Latest(StreetWrites(got.postcode, got.street))]
               IN  /\ got.row # NoRow
                   /\ got.row.lat = last.lat
                   /\ got.row.lon = last.lon
                   /\ got.row.area = last.area

\* The call of get_area_and_coords going on, or just ended, came after
\* another one with the same postcode and street.
LaterLookup ==
    /\ lookup.pc # "idle"
    /\ \/ Len(lookups) = MaxLookups
       \/ Len(lookups) >= 1 /\ lookup.pc \notin {"returned", "raised"}
    /\ lookups[1].postcode = lookup.postcode
    /\ lookups[1].street = lookup.street

\* The lookup whose record is given found nothing.
FoundNothing(ended) == ended.pc = "returned" /\ ended.value.lat = NoNumber

StreetSearches == {i \in 1..Len(sent) : sent[i].fn = "geocode_street"}

\* C21: after get_area_and_coords(postcode, street) found nothing and stored
\* the negative entry, a later get_area_and_coords for the same postcode and
\* street sends no street-search request, and what it returns is the
\* not-found result.
C21_NegativeCached ==
    (LaterLookup /\ FoundNothing(lookups[1]))
        => /\ StreetSearches = {}
           /\ lookup.pc = "returned" => lookup.value.lat = NoNumber

\* The row holds both coordinates.
HasCoordinates(row) == row # NoRow /\ row.lat # NoNumber /\ row.lon # NoNumber

ReverseLookups == {i \in 1..Len(sent) : sent[i].fn = "reverse_geocode"}

\* C22: get_area_and_coords is cache-first. With a cached row that holds both
\* coordinates it returns the row's area and coordinates and sends nothing.
\* Otherwise the street searches come before the reverse lookups, and a
\* reverse lookup is sent only once a street search found the street. When
\* it returns after a miss, the cache holds for its key the coordinates and
\* the area it returns: absent coordinates go with the empty area.
C22_CacheFirst ==
    lookup.pc \notin {"idle", "cache_check"} =>
        LET row == get_street(street_cache, lookup.postcode, lookup.street)
        IN  /\ HasCoordinates(lookup.cached)
                => /\ lookup.pc = "returned"
                   /\ sent = <<>>
                   /\ lookup.value.area = lookup.cached.area
                   /\ lookup.value.lat = lookup.cached.lat
                   /\ lookup.value.lon = lookup.cached.lon
            /\ \A i \in ReverseLookups :
                   /\ \A j \in StreetSearches : j < i
                   /\ \E j \in StreetSearches : sent[j].reply = "data"
                   /\ lookup.geocode_result # NoResult
            /\ (sent # <<>>) => sent[1].fn = "geocode_street"
            /\ (lookup.pc = "returned" /\ ~HasCoordinates(lookup.cached))
                => /\ row # NoRow
                   /\ row.lat = lookup.value.lat
                   /\ row.lon = lookup.value.lon
                   /\ row.area = lookup.value.area
                   /\ (lookup.value.lat = NoNumber)
                        => lookup.value.lon = NoNumber /\ lookup.value.area = ""
                   /\ (lookup.value.lat = NoNumber) <=> (ReverseLookups = {})

\* A street found and reverse geocoded by one call is answered from the
\* cache, under another spelling of the street, by the next call.
C22_Witness ==
    /\ Len(lookups) = MaxLookups
    /\ lookups[1].pc = "returned"
    /\ lookups[1].value.lat # NoNumber
    /\ lookups[1].street # lookup.street
    /\ lookup.pc = "returned"
    /\ HasCoordinates(lookup.cached)
    /\ lookup.value = lookups[1].value

\* C23: whichever function asks, an exhausted bucket does not fail the call
\* at once: BucketFullException reaches the caller only after the acquisition
\* has slept and tried again, so that the street query sent right after the
\* POI query waits for its slot.
C23_AcquireBlocks ==
    acquire.pc = "raised" => acquire.total_waited > 0 /\ acquire.tries > 1

\* Durations in the model's unit of time.
Seconds(n) == n * TicksPerSecond
HalfSecond == TicksPerSecond \div 2

\* What acquire_with_wait keeps to while it runs and when it has ended: at
\* most 21 attempts, half a second slept after each failed one, at most 10
\* seconds in all, a return on the first attempt that succeeds, an exception
\* only from the 21st attempt.
BoundedAcquire ==
    acquire.caller \in WaitingCallers =>
        /\ acquire.tries <= 21
        /\ acquire.total_waited <= Seconds(10)
        /\ acquire.pc = "polling"
              => acquire.total_waited = acquire.tries * HalfSecond
        /\ acquire.pc = "acquired"
              => acquire.total_waited = (acquire.tries - 1) * HalfSecond
        /\ acquire.pc = "raised"
              => acquire.tries = 21 /\ acquire.total_waited = Seconds(10)

\* An attempt of acquire_with_wait is made: it ends the acquisition exactly
\* when the bucket is free, or when it is the one made after 10 seconds.
AttemptEnds ==
    (acquire.pc = "polling" /\ acquire'.tries = acquire.tries + 1) =>
        /\ acquire'.pc = "acquired" <=> Free(acquire.limiter)
        /\ acquire'.pc = "raised"
              <=> ~Free(acquire.limiter) /\ acquire.total_waited = Seconds(10)
        /\ acquire'.pc = "polling" => bucket' = Aged(HalfSecond)

\* C24: the blocking acquire always terminates: it returns with the first
\* attempt that succeeds, sleeps 0.5 s after each attempt that fails until
\* it has waited 10 s (20 attempts), and then makes one last attempt, whose
\* failure is the caller's exception, after 21 attempts at most.
C24_AcquireTerminates ==
    /\ []BoundedAcquire
    /\ [][AttemptEnds]_vars
    /\ (acquire.pc = "polling") ~> (acquire.pc \in {"acquired", "raised"})

\* The bucket was full at each of the 21 attempts.
C24_Witness ==
    /\ acquire.caller \in WaitingCallers
    /\ acquire.pc = "raised"
    /\ acquire.tries = 21

\* The limiter the requests of a function have to pass: one for district
\* geocoding, street search and reverse geocoding, another for map data.
LimiterFor(fn) ==
    IF fn \in {"geocode_district", "geocode_street", "reverse_geocode"}
    THEN "nominatim"
    ELSE "overpass"

\* C25: every request sent for district geocoding, street search or reverse
\* geocoding follows a slot taken on the limiter the three share, and every
\* map-data request a slot taken on the other limiter: no request leaves
\* without its slot.
C25_RequestsAcquire ==
    \A i \in 1..Len(sent) : sent[i].slot = LimiterFor(sent[i].fn)

\* C26: every request sent to a provider carries the identifying header.
C26_RequestsIdentified ==
    \A i \in 1..Len(sent) :
        /\ "User-Agent" \in DOMAIN sent[i].headers
        /\ sent[i].headers["User-Agent"] = USER_AGENT

RetriedFunctions ==
    {"geocode_district", "geocode_street", "reverse_geocode", "query_overpass"}

\* The attempts of fn that a transport failure ended, and its requests to url.
AttemptsFailed(fn) ==
    Cardinality({i \in 1..Len(sent) : sent[i].fn = fn /\ sent[i].reply = "error"})

RequestsTo(fn, url) ==
    Cardinality({i \in 1..Len(sent) : sent[i].fn = fn /\ sent[i].url = url})

\* The replies that let the function return.
Answers == {"matched", "results", "data"}

\* Where a call of a retried function is: the attempt's number, whether the
\* call has ended, and whether RetryError ended it.
GeocodeDistrictCall ==
    [attempt |-> attempt,
     ended |-> geo_pc \in {"returned", "raised"},
     returned |-> geo_pc = "returned",
     retry_error |-> geo_pc = "raised" /\ geo_result = <<"RetryError">>]

RetriedCall ==
    [attempt |-> retried.attempt,
     ended |-> retried.pc \in {"returned", "raised"},
     returned |-> retried.pc = "returned",
     retry_error |-> retried.pc = "raised" /\ retried.value = <<"RetryError">>]

\* The retry policy, for the call `call` of fn.
RetryPolicy(fn, call) ==
    /\ call.attempt \in 1..3
    /\ AttemptsFailed(fn) <= 3
    /\ \A url \in {sent[i].url : i \in 1..Len(sent)} : RequestsTo(fn, url) <= 3
    /\ call.retry_error <=> AttemptsFailed(fn) = 3
    /\ AttemptsFailed(fn) < 3 => call.attempt = AttemptsFailed(fn) + 1
    /\ call.returned => AttemptsFailed(fn) < 3
    /\ \A i \in 1..Len(sent) :
          (sent[i].fn = fn /\ sent[i].reply \in Answers)
             => /\ \A j \in (i + 1)..Len(sent) : sent[j].fn # fn
                /\ call.returned

\* C27: for each retried operation a transport failure brings another
\* attempt until one attempt succeeds or three have failed: there is no
\* fourth attempt, the attempt that succeeds is the last one, and the third
\* failure leaves the operation as an exception, never as a result; the
\* street lookup that called the operation ends with that exception too.
C27_RetryPolicy ==
    /\ geo_call # "none" => RetryPolicy("geocode_district", GeocodeDistrictCall)
    /\ retried.fn # "none" => RetryPolicy(retried.fn, RetriedCall)
    /\ (retried.pc = "raised" /\ lookup.pc \in {"returned", "raised"})
          => lookup.pc = "raised" /\ lookup.value = retried.value

\* The third attempt of the reverse lookup failed as the two before it, and
\* the street lookup ended with RetryError.
C27_Witness ==
    /\ retried.fn = "reverse_geocode"
    /\ AttemptsFailed("reverse_geocode") = 3
    /\ lookup.pc = "raised"
    /\ lookup.value = <<"RetryError">>

\* The requests to the primary provider that brought no centroid.
PrimaryFailures ==
    {i \in 1..Len(sent) :
        sent[i] = PrimaryRequestOf(sent[i].slot, "failed")}

\* After each failed primary request comes the secondary path: the limiter,
\* then the request to the secondary provider. An exception leaves
\* geocode_district only from there.
FallsBackToSecondary ==
    /\ \A i \in PrimaryFailures :
          IF i < Len(sent)
          THEN sent[i + 1].url = "nominatim/search"
          ELSE \/ geo_pc \in {"limiter", "secondary"}
               \/ geo_pc = "raised" /\ geo_result = <<"BucketFullException">>
    /\ geo_pc = "raised"
          => geo_result \in {<<"BucketFullException">>, <<"RetryError">>}

\* The step in which a primary request fails writes nothing to the cache and
\* returns nothing.
FailureWritesNothing ==
    (Len(sent') = Len(sent) + 1 /\ Len(sent') \in PrimaryFailures')
        => /\ district_cache' = district_cache
           /\ street_cache' = street_cache
           /\ geo_result' = geo_result
           /\ geo_pc' = "limiter"

\* C28: a failure of the primary district provider, be it an exception, a
\* response that is not a success, or a body without a result, is not
\* surfaced: geocode_district writes nothing to the cache for it and goes on
\* to the secondary provider.
C28_PrimaryFailureAbsorbed ==
    /\ []FallsBackToSecondary
    /\ [][FailureWritesNothing]_vars

\* The primary request failed, and the secondary provider gave the answer.
C28_Witness ==
    /\ Len(sent) = 2
    /\ PrimaryFailures = {1}
    /\ sent[2].reply = "results"
    /\ geo_pc = "returned"
    /\ geo_result # NoCoords

\* process() has returned its result.
Returned == "success" \in DOMAIN result

\* C29: in every result of process() the error is present exactly when the
\* result is a failure: a success has error None, and a failure has the
\* message of what failed, the geocoding that found nothing or the exception
\* that was raised.
C29_ErrorIffFailure ==
    Returned =>
        /\ result.success <=> result.error = NoError
        /\ ~result.success =>
              /\ Len(result.error) = 2
              /\ result.error[1] # ""
              /\ result.error = error
              /\ result.error =
                    IF exc = <<>>
                    THEN Message("Could not geocode district: ", district)
                    ELSE exc[2]

\* The street query found the limiter's bucket full, and the district's
\* result is the failure with that exception's text.
C29_Witness ==
    /\ Returned
    /\ ~result.success
    /\ exc = <<"street_query", Message("BucketFullException", <<>>)>>
    /\ result.error = Message("BucketFullException", <<>>)

\* The job's state is that of /step calls made one district at a time: as
\* many results as districts processed, the i-th result that of the i-th
\* district, and the job completed exactly when the list is through; until
\* then /step is answered by processing.
SteppedInOrder ==
    current_job # NoJob =>
        /\ Len(current_job.results) = current_job.current_index
        /\ current_job.current_index <= Len(current_job.districts)
        /\ \A i \in 1..Len(current_job.results) :
              current_job.results[i].district = current_job.districts[i]
        /\ current_job.completed
              <=> current_job.current_index = Len(current_job.districts)
        /\ ~current_job.completed => ENABLED ProcessStep

\* A call of /step changes the job by one district: the next of the list,
\* whose result goes to the end of the results.
OneDistrictPerStep ==
    (/\ current_job # NoJob
     /\ current_job' # NoJob
     /\ current_job' # current_job
     /\ current_job'.results # <<>>)
        => /\ current_job'.districts = current_job.districts
           /\ current_job'.current_index = current_job.current_index + 1
           /\ Len(current_job'.results) = Len(current_job.results) + 1
           /\ SubSeq(current_job'.results, 1, Len(current_job.results))
                 = current_job.results
           /\ current_job'.results[Len(current_job'.results)].district
                 = current_job.districts[current_job.current_index + 1]

\* C30: for a started job the /step calls process the districts of the list
\* one per call and in order, each once, and append each result in that
\* order; a failure result does not stop the job: the next /step processes
\* the next district.
C30_StepsInOrder ==
    /\ []SteppedInOrder
    /\ [][OneDistrictPerStep]_vars

\* A job of three districts, the first and the third the same, is through:
\* the first district failed, the second succeeded, the third failed.
C30_Witness ==
    /\ current_job # NoJob
    /\ current_job.districts = <<SE1, E1, SE1>>
    /\ current_job.completed
    /\ ~current_job.results[1].success
    /\ current_job.results[2].success
    /\ ~current_job.results[3].success

\* build_retail_query has returned.
QueryBuilt == retried.fn = "build_retail_query" /\ retried.pc = "returned"

\* The clauses of the query that was built.
QueryClauses == {retried.value[i] : i \in 1..Len(retried.value)}

\* The strings the two patterns describe: one or more characters of
\* [a-z0-9_]; a key of that form, "=", and "*" or a value of that form.
PlainToken(s) == TokenRun(s)

PlainSelector(s) ==
    \E k \in 1..Len(s) :
        /\ TokenRun(SubSeq(s, 1, k))
        /\ k < Len(s)
        /\ s[k + 1] = "="
        /\ \/ SubSeq(s, k + 2, Len(s)) = <<"*">>
           \/ TokenRun(SubSeq(s, k + 2, Len(s)))

\* The entries of a list, as a set.
EntriesOf(list) == {list[i] : i \in 1..Len(list)}

\* Nothing but plain tokens stands in the clauses.
OnlyValidEntriesUsed ==
    \A c \in QueryClauses :
        /\ TokenRun(c.key)
        /\ c.kind = "regex" => \A i \in 1..Len(c.value) : PlainToken(c.value[i])
        /\ c.kind = "equals" => PlainToken(c.value)

\* Every valid entry stands in a clause of its own key.
ValidEntriesUsed ==
    LET args == retried.args
    IN  /\ ~args.include_all_shops =>
              \A e \in EntriesOf(args.shop_types) :
                  PlainToken(e) =>
                      \E c \in QueryClauses :
                          /\ c.key = <<"s", "h", "o", "p">>
                          /\ c.kind = "regex"
                          /\ e \in EntriesOf(c.value)
        /\ \A e \in EntriesOf(args.amenities) :
              PlainToken(e) =>
                  \E c \in QueryClauses :
                      /\ c.key = <<"a", "m", "e", "n", "i", "t", "y">>
                      /\ c.kind = "regex"
                      /\ e \in EntriesOf(c.value)
        /\ \A e \in EntriesOf(args.property_selectors) :
              PlainSelector(e) =>
                  \E c \in QueryClauses :
                      /\ c.key = SplitKey(e)
                      /\ IF SplitValue(e) = <<"*">>
                         THEN c.kind = "exists"
                         ELSE c.kind = "equals" /\ c.value = SplitValue(e)

\* C31: build_retail_query returns a query whatever the entries are; an
\* entry that is not of the form of its pattern (^[a-z0-9_]+$ for shop types
\* and amenities, ^[a-z0-9_]+=(\*|[a-z0-9_]+)$ for selectors) stands in no
\* clause, and every entry of that form stands in one.
C31_InvalidEntriesDropped ==
    QueryBuilt => OnlyValidEntriesUsed /\ ValidEntriesUsed

\* The lists as they stand after the validation of lines 355-357.
ValidShopTypes == SelectSeq(retried.args.shop_types, _token_re)
ValidAmenities == SelectSeq(retried.args.amenities, _token_re)
ValidSelectors == SelectSeq(retried.args.property_selectors, _selector_re)

\* The query is made of whole clause sets: the same key, kind and value for
\* node, way and relation, in that order.
WholeTriples ==
    /\ Len(retried.value) % 3 = 0
    /\ \A t \in 0..((Len(retried.value) \div 3) - 1) :
          LET first == retried.value[3 * t + 1]
          IN  /\ first.geometry = "node"
              /\ retried.value[3 * t + 2] = [first EXCEPT !.geometry = "way"]
              /\ retried.value[3 * t + 3] =
                    [first EXCEPT !.geometry = "relation"]

\* The any-shop clause set.
AnyShop(c) == c.key = <<"s", "h", "o", "p">> /\ c.kind = "exists"

\* No argument yields a clause.
NothingAsked ==
    /\ ~retried.args.include_all_shops
    /\ ValidShopTypes = <<>>
    /\ ValidAmenities = <<>>
    /\ ValidSelectors = <<>>

\* C32: the query that build_retail_query returns holds at least one clause
\* set (node, way, relation), made of whole clause sets only; when no
\* argument yields a clause it is exactly the any-shop clause set.
C32_QueryNeverEmpty ==
    QueryBuilt =>
        /\ Len(retried.value) >= 3
        /\ WholeTriples
        /\ NothingAsked =>
              /\ Len(retried.value) = 3
              /\ \A c \in QueryClauses : AnyShop(c)

\* The default is taken although lists were given: all their entries were
\* invalid.
C32_Witness ==
    /\ QueryBuilt
    /\ NothingAsked
    /\ retried.args.shop_types # <<>>
    /\ retried.args.property_selectors # <<>>
    /\ Len(retried.value) = 3

\* 1 if the condition holds, else 0.
Count(condition) == IF condition THEN 1 ELSE 0

\* The clauses on the key shop, and those on the key amenity.
ShopClauses == {c \in QueryClauses : c.key = <<"s", "h", "o", "p">>}
AmenityClauses ==
    {c \in QueryClauses : c.key = <<"a", "m", "e", "n", "i", "t", "y">>}

\* The groups the arguments ask for.
GroupsAsked ==
    Count(retried.args.include_all_shops \/ ValidShopTypes # <<>>)
    + Count(ValidAmenities # <<>>)
    + Len(ValidSelectors)

\* C33: with the all-shops flag the shop clauses are the any-shop set and
\* the shop types are ignored; without it the valid shop types give one
\* allow-list set; the valid amenities give one allow-list set of their own
\* and each valid selector one set of its own, whatever the shop arguments
\* are; the query holds 3 clauses per group asked, and 3 when none is.
C33_GroupsCombine ==
    QueryBuilt =>
        /\ retried.args.include_all_shops =>
              /\ Cardinality(ShopClauses) = 3
              /\ \A c \in ShopClauses : c.kind = "exists"
        /\ ~retried.args.include_all_shops /\ ValidShopTypes # <<>> =>
              /\ Cardinality(ShopClauses) = 3
              /\ \A c \in ShopClauses :
                    c.kind = "regex" /\ c.value = Escaped(ValidShopTypes)
        /\ IF ValidAmenities # <<>>
           THEN /\ Cardinality(AmenityClauses) = 3
                /\ \A c \in AmenityClauses :
                      c.kind = "regex" /\ c.value = Escaped(ValidAmenities)
           ELSE AmenityClauses = {}
        /\ \A i \in 1..Len(ValidSelectors) :
              \E c \in QueryClauses : c.key = SplitKey(ValidSelectors[i])
        /\ Len(retried.value) =
              IF GroupsAsked = 0 THEN 3 ELSE 3 * GroupsAsked

\* The flag and valid shop types together, with amenities and two selectors:
\* four groups, twelve clauses.
C33_Witness ==
    /\ QueryBuilt
    /\ retried.args.include_all_shops
    /\ ValidShopTypes # <<>>
    /\ ValidAmenities # <<>>
    /\ Len(ValidSelectors) = 2
    /\ Len(retried.value) = 12

\* The requests of the running call of geocode_district to one provider.
RequestsOfCall(provider) ==
    {i \in 1..Len(requests_made) : requests_made[i][1] = provider}

\* The secondary request has just failed with an exception that is retried,
\* and attempts are left.
SecondaryRetried ==
    /\ geo_pc = "secondary"
    /\ Len(requests_made') = Len(requests_made) + 1
    /\ Retried([kind |-> requests_made'[Len(requests_made')][2]])
    /\ attempt' = attempt + 1

\* C34: within one call of geocode_district a retried failure of the
\* secondary request leads straight to the secondary request again: the
\* call looks the cache up once, when it begins, and sends at most one
\* request to the primary provider.
C34_RetryAtRequest ==
    /\ [](Cardinality(RequestsOfCall("primary")) <= 1)
    /\ [][geo_pc' = "cache_check" => geo_pc \in {"idle", "returned", "raised"}]_vars
    /\ [][SecondaryRetried => geo_pc' \in {"limiter", "secondary"}]_vars

\* The handlers that are inside processor.process().
Processing == {t \in Handlers : handlers[t].pc = "processing"}

\* C35: whether or not requests to /step overlap, no two of them process
\* the same district, the results never outnumber the districts, the i-th
\* result is that of the i-th district, and a completed job whose handlers
\* have all answered holds one result per district.
C35_OverlappingSteps ==
    current_job # NoJob =>
        /\ \A t \in Processing, u \in Processing :
              handlers[t].idx = handlers[u].idx => t = u
        /\ Len(current_job.results) <= Len(current_job.districts)
        /\ \A i \in 1..Len(current_job.results) :
              /\ i <= Len(current_job.districts)
              /\ current_job.results[i].district = current_job.districts[i]
        /\ (current_job.completed /\ Processing = {}) =>
              Len(current_job.results) = Len(current_job.districts)

\* C36: whatever requests to /start, /step and /reset were served one after
\* the other, a job that exists holds as many results as its index says, the
\* index lies between 0 and the number of districts, the i-th result is
\* that of the i-th district, and the job is completed exactly when the
\* index has reached the number of districts.
C36_JobConsistent ==
    current_job # NoJob =>
        LET n == Len(current_job.districts)
            index == current_job.current_index
        IN  /\ Len(current_job.results) = index
            /\ 0 <= index /\ index <= n
            /\ \A i \in 1..index :
                  current_job.results[i].district = current_job.districts[i]
            /\ current_job.completed <=> index = n

\* A job in the middle of its list: the first of two different districts is
\* processed, the second is not.
C36_Witness ==
    /\ current_job # NoJob
    /\ current_job.districts = <<E1, SE1>>
    /\ current_job.current_index = 1
    /\ ~current_job.completed
    /\ handlers[1].response.status = 200

\* A request to /step was accepted: the index of the job moved on.
StepAccepted ==
    /\ current_job # NoJob
    /\ current_job' # NoJob
    /\ current_job'.districts = current_job.districts
    /\ current_job'.current_index = current_job.current_index + 1

\* The answer of an accepted step: the number of districts processed, the
\* result of the district just processed, and completed exactly with the
\* last district of the list.
AcceptedAnswer ==
    LET n == Len(current_job.districts)
        index == current_job'.current_index
        answer == handlers'[1].response
    IN  /\ answer.status = 200
        /\ answer.processed = index
        /\ answer.result = current_job'.results[index]
        /\ answer.result.district = current_job.districts[index]
        /\ answer.completed <=> index = n
        /\ current_job'.completed <=> index = n

\* There is no job, or the job is completed.
NothingToStep == current_job = NoJob \/ current_job.completed

\* C37: each accepted request to /step moves the job on by one district
\* and reports it, with completed = true exactly on the step that processes
\* the last district, so a job of N districts is completed by its N-th
\* accepted step; with no job or a completed job no request to /step is
\* accepted: it is answered with status 400 and an error text, and the job
\* stays as it is.
C37_StepsAcceptedOrRefused ==
    /\ [][StepAccepted => AcceptedAnswer]_vars
    /\ [](NothingToStep => ~ENABLED ProcessStep /\ ENABLED RefuseStep)
    /\ [][NothingToStep /\ handlers' # handlers
            => /\ handlers'[1].response.status = 400
               /\ handlers'[1].response.error # ""
               /\ current_job' = current_job]_vars

\* A job of three districts was completed by three steps, and the request
\* to /step that came next was refused.
C37_Witness ==
    /\ current_job # NoJob
    /\ Len(current_job.districts) = 3
    /\ current_job.completed
    /\ current_job.current_index = 3
    /\ handlers[1].response.status = 400
    /\ handlers[1].response.error = "Job already completed"

\* The POI carries no postcode, or one that starts with the district as the
\* processor holds it.
OfTheDistrict(poi) ==
    \/ poi.postcode = <<>>
    \/ StartsWith(RemoveSpaces(Upper(poi.postcode)), district)

\* The names of the full list of the result.
FullListNames ==
    {result.all_streets[k].name : k \in 1..Len(result.all_streets)}

\* C38: every POI that process() extracted, and so every POI attributed to
\* a street name, has no postcode or a postcode of the district; the
\* postcode-consistency check therefore excludes no street, and the full
\* list of a success result holds every fetched street name that was
\* attributed at least one POI.
C38_FilterNeverExcludes ==
    /\ \A i \in 1..Len(pois) : OfTheDistrict(pois[i])
    /\ \A name \in AttributedNames :
          \A k \in 1..Len(Attributed(name)) : OfTheDistrict(Attributed(name)[k])
    /\ Succeeded =>
          \A name \in FetchedNames :
              Len(Attributed(name)) > 0 => name \in FullListNames

\* A POI with a postcode of the sub-district SE11 was attributed to the
\* fetched street nearest to it, which is in the full list.
C38_Witness ==
    /\ pc = "done"
    /\ district = SE1
    /\ \E name \in FetchedNames :
          /\ name \in FullListNames
          /\ \E k \in 1..Len(Attributed(name)) :
                Attributed(name)[k].postcode = PostcodeSubDistrict

\* The slot's name stands in the full list, with the slot's count.
InFullList(pair) ==
    \E k \in 1..Len(result.all_streets) :
        /\ result.all_streets[k].name = pair[1]
        /\ result.all_streets[k].poi_count = pair[2]

\* C39 as stated: in a success result every non-empty slot stands
\* in the full list with the same count, and the slots filled are as many
\* as min(3, length of the full list).
C39_SlotsInFullList ==
    Succeeded =>
        /\ \A k \in 1..3 : Slots[k][1] # "" => InFullList(Slots[k])
        /\ Cardinality(SlotNames) = Min(3, Len(result.all_streets))

\* C39: in a success result every non-empty slot whose name is that of a
\* fetched street stands in the full list with the same count; a slot whose
\* name comes from a street-address hint and is no fetched street stands in
\* no entry of the full list; the slots filled are as many as min(3, number
\* of names with attributed POIs), which is at least min(3, length of the
\* full list), and equal to it when every such name is a fetched street.
C39_FetchedSlotsInFullList ==
    Succeeded =>
        /\ \A k \in 1..3 :
              Slots[k][1] # "" =>
                  IF Slots[k][1] \in FetchedNames
                  THEN InFullList(Slots[k])
                  ELSE Slots[k][1] \notin FullListNames
        /\ Cardinality(SlotNames) = Min(3, Cardinality(AttributedNames))
        /\ Cardinality(SlotNames) >= Min(3, Len(result.all_streets))
        /\ AttributedNames \subseteq FetchedNames =>
              Cardinality(SlotNames) = Min(3, Len(result.all_streets))

\* The first slot holds a hinted name that is no fetched street and the
\* full list lacks it; the second slot holds a fetched street, which the
\* full list has with the same count.
C39_Witness ==
    /\ pc = "done"
    /\ result.street_1 \notin FetchedNames
    /\ result.street_1 \notin FullListNames
    /\ result.street_2 \in FetchedNames
    /\ InFullList(Slots[2])
    /\ Len(result.all_streets) < Cardinality(SlotNames)

====
